---- MODULE Spec2Model ----
(***************************************************************************)
(* Realtime preview engine of the desktop editor: decode worker and its    *)
(* latest-frame slot, timeline resolver, playback clock and decode-command *)
(* debounce of the UI frame, GPU plane ring, RGBA cache worker.            *)
(*                                                                         *)
(* Time is counted in sub-frame units: one sequence frame is SubPerFrame   *)
(* units, so that media times between two frame boundaries exist.          *)
(***************************************************************************)
EXTENDS Integers, Sequences, FiniteSets, TLC

VARIABLES
    \* ---- decode worker thread (decode/worker.rs) ----
    wpc,          \* position of the worker thread: init, drain, tick, exited
    cmd_rx,       \* commands in the unbounded channel, oldest first
    mode,         \* worker's PlayState
    rate,         \* worker's rate
    anchor_pts,   \* worker's anchor_pts
    anchor_t,     \* worker's anchor_t (wall instant of the last re-anchor)
    running,      \* worker's running flag
    slot,         \* LatestFrameSlot: Option<VideoFrameOut>
    wnow,         \* wall clock seen by the worker (Instant::now)
    \* ---- observation of the worker (history) ----
    sent_n,       \* number of commands accepted by the channel
    sent_last,    \* the last of them
    sent_fold,    \* worker state after applying all of them in send order
    published,    \* pts of every frame the worker published, in order
    taken,        \* frames returned by the UI-thread takes, in order
    wlog,         \* what the drain pass and the last tick of the worker did
    \* ---- timeline resolver (preview/mod.rs) ----
    graph,        \* TimelineGraph: tracks (kind, node_ids) and nodes by id
    vs_playhead,  \* playhead of the last visual_source_at call
    vs_result,    \* its result, None before the first call
    \* ---- UI frame (app.rs, preview/ui.rs, timeline/ui.rs) ----
    playback_clock, \* App.playback_clock
    uwall,        \* wall clock seen by the UI thread
    playhead,     \* App.playhead, in frames
    engine_state, \* App.engine.state
    last_sent,    \* App.last_sent: Option<(PlayState, String, Option<i64>)>
    \* ---- observation of the UI frame (history) ----
    ui_input,     \* inputs of the last frame
    tick_cmd,     \* command the last frame sent, with its path
    clock_op,     \* last operation called on the clock
    pause_resume, \* now() at the last pause and right after the resume
    play_run,     \* Play commands of the current stay in Playing on a path
    seek_run,     \* Seek commands of the current (state, path, bucket) run
    \* ---- plane ring of PreviewState (preview/state.rs) ----
    ring_write,   \* PreviewState.ring_write
    ring_present, \* PreviewState.ring_present
    y_size,       \* PreviewState.y_size: 0 for (0, 0), else a frame size
    y_tex_some,   \* y_tex[0].is_some() && uv_tex[0].is_some()
    last_fmt,     \* last_fmt.is_some()
    ring_pc,      \* ok, or panicked
    debug_assertions, \* whether the build keeps debug_assert!
    \* ---- observation of the ring (history) ----
    ring_log,     \* what the last presenter call did
    ring_ops,     \* presenter calls so far
    ring_run,     \* uploads and drops since the textures were made or drawn
    drawn,        \* slot the last draw call references
    \* ---- frame caches of PreviewState (preview/state.rs) ----
    ui_pc,        \* where the UI thread is: idle, join, decode_yuv_at
    ui_req,       \* the call the UI thread is inside of
    cache_worker, \* PreviewState.cache_worker: Option<JoinHandle>
    cache_stop,   \* PreviewState.cache_stop: whose stop flag it holds
    cw_pc,        \* position of each cache worker thread
    cw_stop,      \* stop flag of each cache worker thread
    cw_key,       \* cache key each cache worker thread decodes
    frame_cache,  \* keys of frame_cache, oldest last_access first
    nv12_keys,    \* nv12_keys with the cached frame size of each key
    nv12_cache,   \* nv12_cache: the frame size cached for each key
    \* ---- observation of the NV12 cache (history) ----
    nv12_obs,     \* keys looked up, the last of them, hits and decode errors
    \* ---- observation of the RGBA cache (history) ----
    fc_obs,       \* keys in order of their last use, and the last eviction
    \* ---- decode manager of App (spec section 4.4) ----
    decode_mgr,   \* path -> command-visible state of the worker of that path
    \* ---- timeline editing of App (timeline/ui.rs) ----
    selected,     \* App.selected: Option<(track, item)>
    drag,         \* App.drag: Option<DragState>
    next_id,      \* the id NodeId::new() returns next
    edits,        \* edits started so far
    \* ---- observation of the edits (history) ----
    edit_log,     \* what the last step of the timeline UI did
    \* ---- plane textures of PreviewState and the device (preview/state.rs) ----
    tex,          \* size, formats and padded row sizes of the ring textures
    \* ---- observation of the plane textures (history) ----
    tex_log,      \* the last frame handed to the presenter and what became of it
    \* ---- background jobs (crates/jobs/src/lib.rs) ----
    rx_submit,    \* submit channel: ids of the jobs sent and not yet received
    rx_cancel,    \* cancel channel: ids sent and not yet received
    job_queue,    \* JobsRuntime.queue: ids of the jobs waiting for a worker
    canceled,     \* JobsRuntime.canceled
    rx_events,    \* event channel, by job: the statuses sent, in order
    feeder,       \* feeder thread: where it is and the job it holds
    job_worker,   \* worker threads: where each is, its job and its step
    job_next,     \* the id the next enqueue returns
    job_cancels   \* cancel_job calls so far

workerVars == <<wpc, cmd_rx, mode, rate, anchor_pts, anchor_t, running, slot,
                wnow, sent_n, sent_last, sent_fold, published, taken>>

graphVars == <<graph, vs_playhead, vs_result>>

appVars == <<playback_clock, uwall, playhead, engine_state, last_sent,
             ui_input, tick_cmd, clock_op, pause_resume, play_run, seek_run>>

ringVars == <<ring_write, ring_present, y_size, y_tex_some, last_fmt, ring_pc,
              debug_assertions, ring_log, ring_ops, ring_run, drawn>>

cacheVars == <<ui_pc, ui_req, cache_worker, cache_stop, cw_pc, cw_stop,
               cw_key, frame_cache, nv12_keys, nv12_cache,
                   nv12_obs>>

editVars == <<selected, drag, next_id, edits, edit_log>>

texVars == <<tex, tex_log>>

jobsVars == <<rx_submit, rx_cancel, job_queue, canceled, rx_events, feeder,
              job_worker, job_next, job_cancels>>

vars == <<workerVars, wlog, graphVars, appVars, ringVars, cacheVars, fc_obs, decode_mgr,
          editVars, texVars, jobsVars>>

\* What the actions of one component leave alone.
notJobs == <<workerVars, wlog, graphVars, appVars, ringVars, cacheVars, fc_obs,
            decode_mgr, editVars, texVars>>
notWorker == <<jobsVars, fc_obs, decode_mgr, graphVars, appVars, ringVars, cacheVars, editVars,
    texVars>>
notGraph == <<jobsVars, fc_obs, decode_mgr, workerVars, wlog, appVars, ringVars, cacheVars, editVars,
    texVars>>
notApp == <<jobsVars, fc_obs, workerVars, wlog, vs_playhead, vs_result, ringVars, cacheVars, editVars,
    texVars>>
notRing == <<jobsVars, fc_obs, decode_mgr, workerVars, wlog, graphVars, appVars, cacheVars, editVars,
    texVars>>
notCache == <<jobsVars, decode_mgr, workerVars, wlog, graphVars, appVars, editVars,
    texVars>>
notEdit == <<jobsVars, fc_obs, decode_mgr, workerVars, wlog, vs_playhead, vs_result, appVars, ringVars, cacheVars,
            texVars>>
notTex == <<jobsVars, fc_obs, decode_mgr, workerVars, wlog, graphVars, appVars, ringVars, cacheVars,
           editVars>>

\* ------------------------------------------------------------------------
\* Option values
None == [some |-> FALSE]
Some(v) == [some |-> TRUE, val |-> v]

\* ------------------------------------------------------------------------
\* Bounds of the worker model
MaxSent == 2        \* commands sent to one worker
MaxPublished == 2   \* frames published by one worker
MaxWall == 1        \* wall-clock steps
MaxPts == 1         \* largest pts carried by a command
MaxLag == 0         \* decoder calls that return no frame before one does
MaxScrubFrames == 6 \* frames published during one scrub

PREFETCH_BUDGET_PER_TICK == 6

PtsVals == 0..MaxPts
RateVals == {1, 2}

DecodeCmd ==
    [type : {"Play"}, start_pts : PtsVals, rate : RateVals]
      \cup [type : {"Seek"}, target_pts : PtsVals]
      \cup [type : {"Pause"}]
      \cup [type : {"Stop"}]

\* The worker's command-visible state.
WorkerState(m, a, r, t, run) ==
    [mode |-> m, anchor_pts |-> a, rate |-> r, anchor_t |-> t, running |-> run]

\* State of a freshly spawned worker (worker.rs:74-78).
WorkerInitState(now) == WorkerState("Paused", 0, 1, now, TRUE)

\* One arm of the `match cmd` in the drain loop (worker.rs:103-116).
ApplyCmdReanchors(s, cmd, now) ==
    CASE cmd.type = "Play" ->
           [s EXCEPT !.mode = "Playing", !.anchor_pts = cmd.start_pts,
                     !.anchor_t = now, !.rate = cmd.rate]
      [] cmd.type = "Seek" ->
           [s EXCEPT !.mode = "Seeking", !.anchor_pts = cmd.target_pts]
      [] cmd.type = "Pause" -> [s EXCEPT !.mode = "Paused"]
      [] cmd.type = "Stop" -> [s EXCEPT !.running = FALSE]

ApplyCmdFirstSeekWins(s, cmd, now) ==
    CASE cmd.type = "Play" ->
           IF s.mode # "Playing"
             THEN [s EXCEPT !.mode = "Playing", !.anchor_pts = cmd.start_pts,
                            !.anchor_t = now, !.rate = cmd.rate]
             ELSE [s EXCEPT !.rate = cmd.rate]
      [] cmd.type = "Seek" ->
           IF s.mode # "Seeking"
             THEN [s EXCEPT !.mode = "Seeking", !.anchor_pts = cmd.target_pts]
             ELSE s
      [] cmd.type = "Pause" -> [s EXCEPT !.mode = "Paused"]
      [] cmd.type = "Stop" -> [s EXCEPT !.running = FALSE]

ApplyCmd(s, cmd, now) ==
    CASE cmd.type = "Play" ->
           IF s.mode # "Playing"
             THEN [s EXCEPT !.mode = "Playing", !.anchor_pts = cmd.start_pts,
                            !.anchor_t = now, !.rate = cmd.rate]
             ELSE [s EXCEPT !.rate = cmd.rate]
      [] cmd.type = "Seek" ->
           [s EXCEPT !.mode = "Seeking", !.anchor_pts = cmd.target_pts]
      [] cmd.type = "Pause" -> [s EXCEPT !.mode = "Paused"]
      [] cmd.type = "Stop" -> [s EXCEPT !.running = FALSE]

\* cmd_rx.try_recv() on a non-empty channel: the oldest command and the rest.
try_recv_newest(q) == [cmd |-> q[Len(q)], rest |-> SubSeq(q, 1, Len(q) - 1)]
try_recv(q) == [cmd |-> Head(q), rest |-> Tail(q)]

\* attempt_decode (worker.rs:80-97) against a decoder whose first `lag`
\* calls return no frame (lag = -1: it never returns one).  The result of
\* calls 1, 3, 5, ... is looked at; the calls in between are discarded
\* (`let _ =`, worker.rs:86).  dropped: the discarded calls that returned a
\* frame.
CheckedCalls == {2 * k + 1 : k \in 0..PREFETCH_BUDGET_PER_TICK}
DroppedCalls(lag, calls) ==
    {i \in 1..calls : i % 2 = 0 /\ lag >= 0 /\ i > lag}
attempt_decode(target, lag) ==
    LET hits == {i \in CheckedCalls : lag >= 0 /\ i > lag}
        first == CHOOSE i \in hits : \A j \in hits : i <= j
        calls == IF hits # {} THEN first ELSE 2 * PREFETCH_BUDGET_PER_TICK + 1
    IN [calls |-> calls,
        dropped |-> Cardinality(DroppedCalls(lag, calls)),
        frame |-> IF hits # {} THEN Some([pts |-> target]) ELSE None]

\* `*g = Some(out)` (worker.rs:125, 133): the slot is overwritten.
PublishIfEmpty(old, out) == IF old.some THEN old ELSE Some(out)
Publish(old, out) == Some(out)

\* ------------------------------------------------------------------------
\* Decode worker: thread start (worker.rs:64-78).  A decoder that cannot be
\* created ends the thread before the loop.
WorkerStart(ok) ==
    /\ UNCHANGED notWorker
    /\ wpc = "init"
    /\ wpc' = IF ok THEN "drain" ELSE "exited"
    /\ anchor_t' = wnow
    /\ UNCHANGED <<cmd_rx, mode, rate, anchor_pts, running, slot, wnow,
                   sent_n, sent_last, sent_fold, published, taken>>

\* One iteration of `while let Ok(cmd) = cmd_rx.try_recv()` (worker.rs:102).
DrainCmd ==
    /\ UNCHANGED notWorker
    /\ wpc = "drain"
    /\ cmd_rx # <<>>
    /\ LET r == try_recv(cmd_rx)
           s == ApplyCmd(WorkerState(mode, anchor_pts, rate, anchor_t, running),
                         r.cmd, wnow)
       IN /\ cmd_rx' = r.rest
          /\ mode' = s.mode
          /\ anchor_pts' = s.anchor_pts
          /\ rate' = s.rate
          /\ anchor_t' = s.anchor_t
          /\ running' = s.running
    /\ UNCHANGED <<wpc, slot, wnow, sent_n, sent_last, sent_fold, published,
                   taken>>

\* try_recv finds the channel empty: the drain loop ends.
DrainDone ==
    /\ UNCHANGED notWorker
    /\ wpc = "drain"
    /\ cmd_rx = <<>>
    /\ wpc' = "tick"
    /\ UNCHANGED <<cmd_rx, mode, rate, anchor_pts, anchor_t, running, slot,
                   wnow, sent_n, sent_last, sent_fold, published, taken>>

\* The arms of `match mode` (worker.rs:119-140) up to the write of the slot:
\* the target, the frame attempt_decode returned and the decode_frame calls
\* made, for a worker in mode m whose anchor is `elapsed` old.
match_mode_decodes(m, anchor, elapsed, r, lag) ==
    LET target == IF m = "Playing" THEN anchor + elapsed * r ELSE anchor
        d == attempt_decode(target, lag)
    IN [calls |-> d.calls,
        dropped |-> d.dropped,
        target |-> target,
        frame |-> d.frame]

match_mode(m, anchor, elapsed, r, lag) ==
    IF m = "Paused"
      THEN [calls |-> 0, dropped |-> 0, target |-> 0, frame |-> None]
      ELSE match_mode_decodes(m, anchor, elapsed, r, lag)

\* `match mode` (worker.rs:119-140), then the `while running` test.  The
\* worker is followed for at most max published frames.
WorkerTick(lag, max) ==
    /\ UNCHANGED notWorker
    /\ wpc = "tick"
    /\ LET t == match_mode(mode, anchor_pts, wnow - anchor_t, rate, lag)
       IN IF ~t.frame.some
            THEN UNCHANGED <<slot, published>>
            ELSE /\ Len(published) < max
                 /\ published' = Append(published, t.frame.val.pts)
                 /\ slot' = Publish(slot, [id |-> Len(published) + 1,
                                           pts |-> t.frame.val.pts])
    /\ wpc' = IF running THEN "drain" ELSE "exited"
    /\ UNCHANGED <<cmd_rx, mode, rate, anchor_pts, anchor_t, running, wnow,
                   sent_n, sent_last, sent_fold, taken>>

\* UI thread: send_cmd on the worker's channel.  After the worker thread has
\* ended the receiver is gone and the send fails.
SendCmd(cmd) ==
    /\ UNCHANGED notWorker
    /\ sent_n < MaxSent
    /\ wpc # "exited"
    /\ cmd_rx' = Append(cmd_rx, cmd)
    /\ sent_n' = sent_n + 1
    /\ sent_last' = Some(cmd)
    /\ sent_fold' = ApplyCmd(sent_fold, cmd, 0)
    /\ UNCHANGED <<wpc, mode, rate, anchor_pts, anchor_t, running, slot, wnow,
                   published, taken>>

\* UI thread: take_latest moves the frame out of the slot.
take_latest(s) == [frame |-> s, slot |-> None]

TakeLatest ==
    /\ UNCHANGED notWorker
    /\ LET r == take_latest(slot)
       IN /\ slot' = r.slot
          /\ taken' = IF r.frame.some THEN Append(taken, r.frame.val) ELSE taken
    /\ UNCHANGED <<wpc, cmd_rx, mode, rate, anchor_pts, anchor_t, running,
                   wnow, sent_n, sent_last, sent_fold, published>>

WallAdvance ==
    /\ UNCHANGED notWorker
    /\ wnow < MaxWall
    /\ wnow' = wnow + 1
    /\ UNCHANGED <<wpc, cmd_rx, mode, rate, anchor_pts, anchor_t, running,
                   slot, sent_n, sent_last, sent_fold, published, taken>>

\* ------------------------------------------------------------------------
\* Observation of the worker's loop.  drained: the commands try_recv returned
\* in the current drain pass (worker.rs:102); left_paused: a Play or Seek was
\* drained since the spawn; decoders: create_decoder calls that succeeded
\* (worker.rs:67); tick, pass, stopped, target, calls, wrote: the mode
\* matched by the last `match mode`, the commands of the drain pass before
\* it, whether running was false by then, the target it decoded for, the
\* decode_frame calls it made and whether it wrote the slot; dropped: the
\* calls of that tick whose frame was discarded; misses: ticks in a row whose
\* attempt_decode returned None.
MaxMisses == 2      \* ticks in a row without a frame that are counted

NoWorkerLog ==
    [calls |-> 0,
     dropped |-> 0,
     drained |-> <<>>,
     left_paused |-> FALSE,
     decoders |-> 0,
     tick |-> "none",
     pass |-> <<>>,
     stopped |-> FALSE,
     target |-> 0,
     wrote |-> FALSE,
     misses |-> 0]

ObserveStart(ok) ==
    wlog' = [wlog EXCEPT !.decoders = IF ok THEN 1 ELSE 0]

ObserveDrain ==
    wlog' = [wlog EXCEPT
               !.drained = Append(@, try_recv(cmd_rx).cmd),
               !.left_paused = @ \/ try_recv(cmd_rx).cmd.type \in {"Play", "Seek"}]

ObserveTick(lag) ==
    LET t == match_mode(mode, anchor_pts, wnow - anchor_t, rate, lag)
    IN wlog' = [wlog EXCEPT
                  !.drained = <<>>,
                  !.tick = mode,
                  !.pass = wlog.drained,
                  !.stopped = ~running,
                  !.target = t.target,
                  !.calls = t.calls,
                  !.dropped = t.dropped,
                  !.wrote = published' # published,
                  !.misses = IF mode = "Paused" THEN @
                             ELSE IF t.frame.some THEN 0
                             ELSE IF @ < MaxMisses THEN @ + 1 ELSE @]

\* ------------------------------------------------------------------------
\* Timeline resolver (preview/mod.rs)

MaxNodes == 2       \* nodes in a graph
MaxFrame == 2       \* largest timeline_range.end()

\* The track kinds of a graph, bottom track first: an image track under a
\* video track, and a video track under an audio track.
TrackKinds == {<<"Image", "Video">>, <<"Video", "Audio">>}

\* A node: a Clip with or without asset_id, a Generator (a solid or an id
\* the preview does not know), or a Transition (no frame range).
NodeShapes ==
    [kind : {"Clip"}, has_asset : BOOLEAN, generator_id : {"-"}]
      \cup [kind : {"Generator"}, has_asset : {FALSE},
            generator_id : {"solid", "other"}]
      \cup [kind : {"Transition"}, has_asset : {FALSE}, generator_id : {"-"}]

\* Only Clips and Generators carry a timeline range.
NodeAttrs ==
    {a \in [shape : {sh \in NodeShapes : sh.kind # "Transition"},
            start : 0..(MaxFrame - 1), duration : 1..MaxFrame,
            media_start : {0}] : a.start + a.duration <= MaxFrame}
      \cup [shape : {sh \in NodeShapes : sh.kind = "Transition"},
            start : {0}, duration : {0}, media_start : {0}]

\* Placements of n nodes on the tracks.  Node ids are opaque, so every graph
\* is one of these up to a renaming of its ids: ids are handed out track by
\* track, in node_ids order.
Placements(n, ntracks) ==
    {pl \in [1..n -> 1..ntracks] :
        \A i \in 1..n : \A j \in 1..n : i <= j => pl[i] <= pl[j]}

\* Node ids of track t, in id order, for a placement of nodes on tracks.
RECURSIVE IdsOnTrack(_, _, _)
IdsOnTrack(place, t, i) ==
    IF i > Len(place) THEN <<>>
    ELSE (IF place[i] = t THEN <<i>> ELSE <<>>) \o IdsOnTrack(place, t, i + 1)

MkGraph(attrs, place, kinds) ==
    [tracks |-> [t \in 1..Len(kinds) |->
                    [kind |-> kinds[t], node_ids |-> IdsOnTrack(place, t, 1)]],
     nodes |-> attrs]

EmptyGraph == [tracks |-> <<>>, nodes |-> <<>>]

\* FrameRange::end.
RangeEnd(range) == range.start + range.duration

\* node_frame_range (preview/mod.rs:30-36).
node_frame_range(node) ==
    IF node.shape.kind \in {"Clip", "Generator"}
      THEN Some([start |-> node.start, duration |-> node.duration])
      ELSE None

\* The covering test of visual_source_at (preview/mod.rs:17).
CoversInclusiveEnd(range, p) == ~(p < range.start \/ p > RangeEnd(range))
Covers(range, p) == ~(p < range.start \/ p >= RangeEnd(range))

\* asset_id and playback_rate of a Clip.  A node that names no asset has
\* one of its own, and one that names no rate plays at 1.0 (app.rs:350).
AssetOf(id, node) == IF "asset" \in DOMAIN node THEN node.asset ELSE id
PlaybackRate(node) ==
    IF "playback_rate" \in DOMAIN node THEN node.playback_rate ELSE 1

\* clip_source (preview/mod.rs:38-42); the path of asset a is <<"asset", a>>.
clip_source(binding, id, node) ==
    IF node.shape.has_asset
      THEN Some([path |-> <<"asset", AssetOf(id, node)>>,
                 is_image |-> binding.kind = "Image"])
      ELSE None

\* generator_source (preview/mod.rs:44-53); the colour of node id is id.
generator_source(id, node) ==
    CASE node.shape.generator_id = "solid" ->
           Some([path |-> <<"solid:", id>>, is_image |-> TRUE])
      [] node.shape.generator_id = "text" ->
           Some([path |-> <<"text://generator", 0>>, is_image |-> TRUE])
      [] OTHER -> None

\* The inner loop over binding.node_ids from position i on.  `found` tells
\* whether the function returned; otherwise the next track is scanned.
RECURSIVE ScanNodes(_, _, _, _)
ScanNodes(g, binding, i, p) ==
    IF i > Len(binding.node_ids) THEN [found |-> FALSE, result |-> None]
    ELSE LET id == binding.node_ids[i]
         IN IF id \notin DOMAIN g.nodes THEN [found |-> TRUE, result |-> None]
            ELSE LET node == g.nodes[id]
                     range == node_frame_range(node)
                 IN IF ~range.some THEN ScanNodes(g, binding, i + 1, p)
                    ELSE IF ~Covers(range.val, p)
                      THEN ScanNodes(g, binding, i + 1, p)
                    ELSE IF node.shape.kind = "Clip"
                      THEN [found |-> TRUE,
                            result |-> clip_source(binding, id, node)]
                    ELSE IF generator_source(id, node).some
                      THEN [found |-> TRUE,
                            result |-> generator_source(id, node)]
                    ELSE ScanNodes(g, binding, i + 1, p)

\* The outer loop over graph.tracks.iter().rev() from track t downwards.
RECURSIVE ScanTracks(_, _, _)
ScanTracks(g, t, p) ==
    IF t < 1 THEN None
    ELSE IF g.tracks[t].kind = "Audio" THEN ScanTracks(g, t - 1, p)
    ELSE LET r == ScanNodes(g, g.tracks[t], 1, p)
         IN IF r.found THEN r.result ELSE ScanTracks(g, t - 1, p)

\* visual_source_at (preview/mod.rs:11-28).
visual_source_at(g, p) == ScanTracks(g, Len(g.tracks), p)

Playheads == 0..MaxFrame

\* preview_ui resolves the source at the playhead (preview/ui.rs:41).
Resolve(p) ==
    /\ vs_playhead' = p
    /\ vs_result' = [called |-> TRUE, source |-> visual_source_at(graph, p)]
    /\ UNCHANGED <<graph>>
    /\ UNCHANGED notGraph

\* ------------------------------------------------------------------------
\* UI frame: playback clock, transport handlers, preview tick, timeline scrub
\* (app.rs, preview/ui.rs, timeline/ui.rs)

SubPerFrame == 2    \* time units per sequence frame
MaxUiWall == 3      \* wall-clock steps of the UI thread
MaxClick == 3       \* largest frame a pointer position on the timeline maps to

\* Frame indices from a time: (t * fps).floor() and (t * fps).round().
frames_floor(t) == t \div SubPerFrame
frames_round(t) == (2 * t + SubPerFrame) \div (2 * SubPerFrame)

\* frames_to_seconds: frame / fps.
frames_to_seconds(f) == f * SubPerFrame

\* PlaybackClock { rate: 1.0, ..Default::default() } (app.rs:76).
NewClock == [rate |-> 1,
             playing |-> FALSE,
             anchor_media |-> 0,
             anchor_wall |-> None]

\* PlaybackClock operations (spec section 4.2).
clock_play(c, at, wall) ==
    [c EXCEPT !.playing = TRUE, !.anchor_media = at, !.anchor_wall = Some(wall)]

clock_pause(c, at) ==
    [c EXCEPT !.playing = FALSE, !.anchor_media = at, !.anchor_wall = None]

clock_seek_to(c, sec, wall) ==
    IF c.playing
      THEN [c EXCEPT !.anchor_media = sec, !.anchor_wall = Some(wall)]
      ELSE [c EXCEPT !.anchor_media = sec]

clock_now(c, wall) ==
    IF c.playing
      THEN c.anchor_media + (wall - c.anchor_wall.val) * c.rate
      ELSE c.anchor_media

\* seq.duration_in_frames as sync_tracks_from_graph leaves it (app.rs:93-110):
\* the largest range end of a Clip or Generator.
SeqDuration(g) ==
    LET ends == {RangeEnd(node_frame_range(g.nodes[i]).val) :
                    i \in {j \in DOMAIN g.nodes : node_frame_range(g.nodes[j]).some}}
    IN IF ends = {} THEN 0 ELSE CHOOSE e \in ends : \A x \in ends : x <= e

\* i64::clamp.
clamp(x, lo, hi) == IF x < lo THEN lo ELSE IF x > hi THEN hi ELSE x

\* active_video_media_time_graph (app.rs:210-227): inner loop from position i.
RECURSIVE MediaScanNodes(_, _, _, _)
MediaScanNodes(g, binding, i, t) ==
    IF i > Len(binding.node_ids) THEN [found |-> FALSE, result |-> None]
    ELSE LET id == binding.node_ids[i]
         IN IF id \notin DOMAIN g.nodes THEN [found |-> TRUE, result |-> None]
            ELSE LET node == g.nodes[id]
                     range == [start |-> node.start, duration |-> node.duration]
                     local_t == IF t - frames_to_seconds(node.start) > 0
                                  THEN t - frames_to_seconds(node.start) ELSE 0
                 IN IF node.shape.kind # "Clip"
                      THEN MediaScanNodes(g, binding, i + 1, t)
                    ELSE IF ~Covers(range, frames_round(t))
                      THEN MediaScanNodes(g, binding, i + 1, t)
                    ELSE IF ~node.shape.has_asset
                      THEN [found |-> TRUE, result |-> None]
                    ELSE [found |-> TRUE,
                          result |-> Some([path |-> <<"asset", AssetOf(id, node)>>,
                               media_sec |-> frames_to_seconds(node.media_start)
                                               + local_t * PlaybackRate(node)])]

RECURSIVE MediaScanTracks(_, _, _)
MediaScanTracks(g, tr, t) ==
    IF tr < 1 THEN None
    ELSE IF g.tracks[tr].kind = "Audio" THEN MediaScanTracks(g, tr - 1, t)
    ELSE LET r == MediaScanNodes(g, g.tracks[tr], 1, t)
         IN IF r.found THEN r.result ELSE MediaScanTracks(g, tr - 1, t)

active_video_media_time_graph(g, t) == MediaScanTracks(g, Len(g.tracks), t)

\* The debounce key (preview/ui.rs:116-119) and its test (preview/ui.rs:120).
DebounceKey(state, path, bucket) ==
    [path |-> path,
     state |-> state,
     bucket |-> IF state = "Playing" THEN None ELSE Some(bucket)]

ShouldSendAlways(last, k) == TRUE
ShouldSend(last, k) == last # Some(k)

\* The command of preview/ui.rs:121-128.
PreviewCmd(state, media_t, r) ==
    IF state = "Playing"
      THEN [pts |-> media_t, type |-> "Play", rate |-> r]
      ELSE [pts |-> media_t, type |-> "Seek", rate |-> r]

\* Time a pointer position on the timeline stands for (timeline/ui.rs:527-528).
ScrubSecondsClamped(frames) ==
    frames_to_seconds(clamp(frames, 0, SeqDuration(graph)))
ScrubSeconds(frames) == frames_to_seconds(frames)

\* ---- observation of the UI frame (history) ----
NoPauseResume == [paused_at |-> None, resumed_at |-> None]
NoPlayRun == [path |-> None, plays |-> 0]
NoSeekRun == [key |-> None, ticks |-> 0, seeks |-> 0]

\* A run of Playing starts when engine.state becomes Playing and ends when
\* it becomes anything else.
TrackPlaying(run, before, after) ==
    IF after # "Playing" \/ before # "Playing" THEN NoPlayRun ELSE run

Count(n, sent_now) == IF sent_now /\ n < 2 THEN n + 1 ELSE n

\* The fields of App the frame works on, with the observations.
AppState ==
    [clock |-> playback_clock, playhead |-> playhead, engine |-> engine_state,
     last_sent |-> last_sent, cmd |-> None, clock_op |-> clock_op,
     pause_resume |-> pause_resume, play_run |-> play_run,
     seek_run |-> seek_run]

\* The two arms of the play/pause toggles (app.rs:391-404, 428-438).
TransportPause(s, wall) ==
    [s EXCEPT !.clock = clock_pause(@, frames_to_seconds(s.playhead)),
              !.engine = "Paused",
              !.clock_op = "pause",
              !.pause_resume = [paused_at |-> Some(clock_now(s.clock, wall)),
                                resumed_at |-> None],
              !.play_run = TrackPlaying(@, s.engine, "Paused")]

TransportPlay(s, wall, rewind) ==
    [s EXCEPT !.playhead = IF rewind /\ @ >= SeqDuration(graph) THEN 0 ELSE @,
              !.clock = clock_play(@, frames_to_seconds(s.playhead), wall),
              !.engine = "Playing",
              !.clock_op = "play",
              !.pause_resume =
                 IF @.paused_at.some /\ ~@.resumed_at.some
                   THEN [@ EXCEPT !.resumed_at =
                           Some(clock_now(clock_play(s.clock,
                                   frames_to_seconds(s.playhead), wall), wall))]
                   ELSE NoPauseResume,
              !.play_run = TrackPlaying(@, s.engine, "Playing")]

\* Space (app.rs:387-405).
SpaceKey(s, pressed, wall) ==
    IF ~pressed THEN s
    ELSE IF s.clock.playing THEN TransportPause(s, wall)
    ELSE TransportPlay(s, wall, TRUE)

\* app.rs:408-410.
AlignEngine(s) ==
    IF s.engine \in {"Scrubbing", "Seeking"} THEN s
    ELSE LET e == IF s.clock.playing THEN "Playing" ELSE "Paused"
         IN [s EXCEPT !.engine = e,
                      !.play_run = TrackPlaying(@, s.engine, e)]

\* The Play/Pause button of the top panel (app.rs:425-439).
PlayButton(s, clicked, wall) ==
    IF ~clicked THEN s
    ELSE IF s.engine = "Playing" THEN TransportPause(s, wall)
    ELSE TransportPlay(s, wall, FALSE)

\* preview_ui up to the command debounce (preview/ui.rs:30-131).
PreviewTick(s, wall) ==
    LET t_playhead == clock_now(s.clock, wall)
        playhead_frame == IF s.engine = "Playing" THEN frames_floor(t_playhead)
                          ELSE frames_round(t_playhead)
        s1 == [s EXCEPT !.playhead = playhead_frame]
        source == visual_source_at(graph, playhead_frame)
        quiet == [s1 EXCEPT !.seek_run = NoSeekRun]
    IN IF ~source.some THEN quiet
       ELSE IF source.val.path[1] \in {"solid:", "text://generator"} THEN quiet
       ELSE LET am == active_video_media_time_graph(graph, t_playhead)
                active_path == IF am.some THEN am.val.path ELSE source.val.path
                media_t == IF am.some THEN am.val.media_sec ELSE t_playhead
                k == DebounceKey(s.engine, active_path, frames_round(media_t))
                send == ShouldSend(s.last_sent, k)
                cmd == [cmd |-> PreviewCmd(s.engine, media_t, 1),
                        path |-> active_path]
            IN [s1 EXCEPT
                  !.last_sent = IF send THEN Some(k) ELSE @,
                  !.cmd = IF send THEN Some(cmd) ELSE None,
                  !.play_run =
                     IF s.engine # "Playing" THEN @
                     ELSE IF @.path = Some(active_path)
                       THEN [@ EXCEPT !.plays = Count(@, send)]
                     ELSE [path |-> Some(active_path),
                           plays |-> Count(0, send)],
                  !.seek_run =
                     IF s.engine = "Playing" THEN NoSeekRun
                     ELSE IF @.key = Some(k)
                       THEN [@ EXCEPT !.ticks = Count(@, TRUE),
                                      !.seeks = Count(@, send)]
                     ELSE [key |-> Some(k), ticks |-> 1,
                           seeks |-> Count(0, send)]]

\* Click or drag on the timeline background (timeline/ui.rs:521-548).
TimelineScrub(s, ptr, wall) ==
    IF ptr.kind \notin {"click", "drag"} THEN s
    ELSE LET e == IF ptr.kind = "click" THEN "Seeking" ELSE "Scrubbing"
         IN [s EXCEPT
               !.clock = clock_seek_to(@, ScrubSeconds(ptr.frames), wall),
               !.playhead = clamp(ptr.frames, 0, SeqDuration(graph)),
               !.engine = e,
               !.clock_op = "seek_to",
               !.pause_resume = NoPauseResume,
               !.play_run = TrackPlaying(@, s.engine, e)]

\* What the pointer does in one frame.
PointerInputs ==
    [kind : {"none", "button"}, frames : {0}]
      \cup [kind : {"click", "drag"}, frames : 0..MaxClick]

\* One UI frame (App::update, app.rs:376-700): Space, engine alignment, the
\* top panel, the preview panel, the timeline panel.
Update(space, ptr) ==
    /\ UNCHANGED notApp
    /\ \E a \in {SpaceKey(AppState, space, uwall)} :
       \E b \in {AlignEngine(a)} :
       \E c \in {PlayButton(b, ptr.kind = "button", uwall)} :
       \E d \in {PreviewTick(c, uwall)} :
       \E e \in {TimelineScrub(d, ptr, uwall)} :
          /\ playback_clock' = e.clock
          /\ playhead' = e.playhead
          /\ engine_state' = e.engine
          /\ last_sent' = e.last_sent
          /\ tick_cmd' = e.cmd
          /\ clock_op' = e.clock_op
          /\ pause_resume' = e.pause_resume
          /\ play_run' = e.play_run
          /\ seek_run' = e.seek_run
    /\ ui_input' = [space |-> space, ptr |-> ptr]
    /\ UNCHANGED <<graph, uwall>>

\* Wall time passes between two UI frames.
WallInput == [space |-> FALSE, ptr |-> [kind |-> "wall", frames |-> 0]]

UiWallAdvance(max) ==
    /\ UNCHANGED notApp
    /\ uwall < max
    /\ uwall' = uwall + 1
    /\ ui_input' = WallInput
    /\ UNCHANGED <<graph, playback_clock, playhead, engine_state, last_sent,
                   tick_cmd, clock_op, pause_resume, play_run, seek_run>>

\* Decode manager (spec section 4.4): ensureWorker spawns the worker of a
\* path if absent, sendCmd enqueues.  The worker is taken to drain a command
\* at the wall time it is sent.
DecodeCmdOf(c) ==
    IF c.type = "Play"
      THEN [type |-> "Play", rate |-> c.rate, start_pts |-> c.pts]
      ELSE [type |-> "Seek", target_pts |-> c.pts]

ensure_worker(mgr, path, now) ==
    IF path \in DOMAIN mgr THEN mgr ELSE (path :> WorkerInitState(now)) @@ mgr

send_cmd(mgr, path, cmd, now) == [mgr EXCEPT ![path] = ApplyCmd(@, cmd, now)]

\* The dispatch of the command a UI frame sent (preview/ui.rs:110-128).
Dispatch ==
    decode_mgr' =
       IF tick_cmd'.some
         THEN LET path == tick_cmd'.val.path
              IN send_cmd(ensure_worker(decode_mgr, path, uwall), path,
                          DecodeCmdOf(tick_cmd'.val.cmd), uwall)
         ELSE decode_mgr

\* Timelines of the UI-frame model, on the tracks App::new creates (V1, V2,
\* A1): empty; one clip after a gap; two clips back to back on V1, the second
\* starting inside its media; a clip on V1 under a solid generator on V2.
AppTracks == <<"Video", "Video", "Audio">>
ClipAttr(start, duration, media_start) ==
    [shape |-> [kind |-> "Clip", has_asset |-> TRUE, generator_id |-> "-"],
     start |-> start, duration |-> duration, media_start |-> media_start]
SolidAttr(start, duration) ==
    [shape |-> [kind |-> "Generator", has_asset |-> FALSE,
                generator_id |-> "solid"],
     start |-> start, duration |-> duration, media_start |-> 0]
AppGraphs ==
    {MkGraph(<<>>, <<>>, AppTracks),
     MkGraph(<<ClipAttr(1, 2, 0)>>, <<1>>, AppTracks),
     MkGraph(<<ClipAttr(0, 2, 0), ClipAttr(2, 1, 1)>>, <<1, 1>>, AppTracks),
     MkGraph(<<ClipAttr(0, 3, 0), SolidAttr(1, 1)>>, <<1, 2>>, AppTracks)}

\* ------------------------------------------------------------------------
\* GPU plane ring of the preview (preview/state.rs)

MaxSizes == 2       \* distinct frame sizes (w, h) that are presented
MaxRingOps == 4     \* calls of the presenter

RING_SLOTS == 3

FrameSizes == 1..MaxSizes
PlaneLens == {"exact", "short", "long"}

\* The ring fields of PreviewState.
RingState ==
    [y_size |-> y_size,
     write |-> ring_write,
     present |-> ring_present,
     y_tex_some |-> y_tex_some,
     last_fmt |-> last_fmt]

\* ensure_yuv_textures (state.rs:118-182): nothing to do when the size is
\* the current one and the textures exist; otherwise new textures and a
\* ring reset.
ensure_yuv_textures(r, sz) ==
    IF r.y_size = sz /\ r.y_tex_some THEN r
    ELSE [r EXCEPT !.write = 0, !.present = 0, !.y_size = sz,
                   !.y_tex_some = TRUE]

\* The drop-on-full test of upload_yuv_planes (state.rs:188-192).
RingFull(r) == (r.write + 1) % RING_SLOTS = r.present

\* upload_yuv_planes (state.rs:184-247).  The result carries what the call
\* did: dropped the frame, panicked on a plane shorter than w * h (the row
\* copy slices out of range), or wrote slot `slot`.
upload_yuv_planes(r, sz, planes) ==
    LET r1 == ensure_yuv_textures(r, sz)
        next_idx == (r1.write + 1) % RING_SLOTS
        idx == r1.write % RING_SLOTS
    IN IF RingFull(r1)
         THEN [op |-> "drop",
               slot |-> idx,
               at |-> r1.present,
               planes |-> planes,
               ring |-> r1,
               remade |-> r1 # r]
       ELSE IF planes = "short"
         THEN [op |-> "panic",
               slot |-> idx,
               at |-> r1.present,
               planes |-> planes,
               ring |-> r1,
               remade |-> r1 # r]
       ELSE [op |-> "upload",
             slot |-> idx,
             at |-> r1.present,
             planes |-> planes,
             ring |-> [r1 EXCEPT !.present = idx, !.write = next_idx,
                                 !.last_fmt = TRUE],
             remade |-> r1 # r]

\* present_yuv_from_bytes (state.rs:683-782).  A plane of the wrong length
\* fails debug_assert_eq! in a debug build and returns None in a release
\* build, after ensure_yuv_textures has run.
present_yuv_from_bytes(r, sz, planes, debug) ==
    LET r1 == ensure_yuv_textures(r, sz)
        wi == r1.write % RING_SLOTS
    IN IF planes # "exact"
         THEN [op |-> IF debug THEN "panic" ELSE "reject",
               slot |-> wi,
               at |-> r1.present,
               planes |-> planes,
               ring |-> r1,
               remade |-> r1 # r]
       ELSE [op |-> "upload",
             slot |-> wi,
             at |-> r1.present,
             planes |-> planes,
             ring |-> [r1 EXCEPT !.last_fmt = TRUE, !.y_size = sz,
                                 !.present = wi,
                                 !.write = (wi + 1) % RING_SLOTS],
             remade |-> r1 # r]

\* Frames written and frames dropped while no draw call came in between.
NoRingRun == [uploads |-> 0, drops |-> 0]
CountUpTo(n, hit) == IF hit /\ n < MaxRingOps THEN n + 1 ELSE n
CountRun(run, op) ==
    [uploads |-> CountUpTo(run.uploads, op = "upload"),
     drops |-> CountUpTo(run.drops, op = "drop")]

\* One presenter call: its effect on the ring fields and its record.
RingCall(res, path) ==
    /\ ring_write' = res.ring.write
    /\ ring_present' = res.ring.present
    /\ y_size' = res.ring.y_size
    /\ y_tex_some' = res.ring.y_tex_some
    /\ last_fmt' = res.ring.last_fmt
    /\ ring_pc' = IF res.op = "panic" THEN "panicked" ELSE ring_pc
    /\ ring_log' = [path |-> path,
                    op |-> res.op,
                    slot |-> res.slot,
                    at |-> res.at,
                    planes |-> res.planes]
    /\ ring_ops' = CountUpTo(ring_ops, TRUE)
    /\ ring_run' = CountRun(IF res.remade THEN NoRingRun ELSE ring_run, res.op)
    /\ drawn' = IF res.op = "upload" THEN Some(res.slot) ELSE drawn
    /\ UNCHANGED debug_assertions

UploadYuvPlanes(sz, planes) ==
    /\ UNCHANGED notRing
    /\ ring_pc = "ok"
    /\ ring_ops < MaxRingOps
    /\ RingCall(upload_yuv_planes(RingState, sz, planes), "upload_yuv_planes")

PresentYuvFromBytes(sz, planes) ==
    /\ UNCHANGED notRing
    /\ ring_pc = "ok"
    /\ ring_ops < MaxRingOps
    /\ RingCall(present_yuv_from_bytes(RingState, sz, planes, debug_assertions),
                "present_yuv_from_bytes")

\* current_plane_textures (state.rs:249-264): the fallback of a frame that
\* got no new planes draws slot ring_present of the current textures.
CurrentPlaneTextures ==
    /\ UNCHANGED notRing
    /\ ring_pc = "ok"
    /\ last_fmt
    /\ drawn' = Some(ring_present % RING_SLOTS)
    /\ ring_log' = [path |-> "current_plane_textures",
                    op |-> "draw",
                    slot |-> ring_present % RING_SLOTS,
                    at |-> ring_present,
                    planes |-> "none"]
    /\ ring_run' = NoRingRun
    /\ UNCHANGED <<ring_write, ring_present, y_size, y_tex_some, last_fmt,
                   ring_pc, ring_ops, debug_assertions>>

\* ------------------------------------------------------------------------
\* UI-thread frame caches of PreviewState: the RGBA cache with its decoding
\* thread, and the NV12 cache of present_yuv (preview/state.rs)

MaxCacheWorkers == 2   \* cache worker threads spawned
MaxKeys == 2           \* distinct FrameCacheKey values requested
MaxExtraKeys == 1      \* keys looked up beyond the capacity of the NV12 cache
MaxOdd == 1            \* lookups that hit or whose decode fails

NV12_CACHE_MAX == 64
FRAME_CACHE_MAX == 50
FRAME_CACHE_EVICT == 10

CacheKeys == 1..MaxKeys
CacheThreads == 1..MaxCacheWorkers

NoReq == [op |-> "none", key |-> 0, tid |-> 0]

\* Number of cache worker threads spawned so far.
Spawned == Cardinality({t \in CacheThreads : cw_pc[t] # "unborn"})

\* `stop.store(true)` on self.cache_stop (state.rs:528-530, 586-588).
StoreStop(flags, stop) ==
    IF stop.some THEN [flags EXCEPT ![stop.val] = TRUE] ELSE flags

\* evict_lru_frames (state.rs:1425-1442) on a cache kept in last_access
\* order, oldest first.
evict_lru_frames(cache, count) ==
    IF Len(cache) <= count THEN cache
    ELSE SubSeq(cache, count + 1, Len(cache))

\* The cache worker's insert (state.rs:568-575).
Remove(seq, k) == SelectSeq(seq, LAMBDA x : x # k)
FrameCacheInsert(cache, k) ==
    LET c == IF Len(cache) > FRAME_CACHE_MAX
               THEN evict_lru_frames(cache, FRAME_CACHE_EVICT) ELSE cache
    IN Append(Remove(c, k), k)

\* thread::spawn of decode_frame_async (state.rs:538-582).
SpawnCacheWorker(key) ==
    LET tid == Spawned + 1
    IN /\ cw_pc' = [cw_pc EXCEPT ![tid] = "start"]
       /\ cw_stop' = [StoreStop(cw_stop, cache_stop) EXCEPT ![tid] = FALSE]
       /\ cw_key' = [cw_key EXCEPT ![tid] = key]
       /\ cache_stop' = Some(tid)
       /\ cache_worker' = Some(tid)

\* PreviewState::update on a new source, time or size (state.rs:468-505),
\* with decode_frame_async (state.rs:518-583) up to worker.join().  A video
\* with native decoding available spawns nothing.
CacheUpdate(key, is_image, native) ==
    /\ UNCHANGED notCache
    /\ UNCHANGED ringVars
    /\ ui_pc = "idle"
    /\ IF key \in {frame_cache[i] : i \in 1..Len(frame_cache)}
            \/ (~is_image /\ native)
         THEN UNCHANGED <<ui_pc, ui_req, cache_worker, cache_stop, cw_pc,
                          cw_stop, cw_key>>
       ELSE /\ Spawned < MaxCacheWorkers
            /\ IF cache_worker.some
                 THEN /\ ui_pc' = "join"
                      /\ ui_req' = [op |-> "decode_frame_async",
                                    key |-> key,
                                    tid |-> cache_worker.val]
                      /\ cw_stop' = StoreStop(cw_stop, cache_stop)
                      /\ cache_worker' = None
                      /\ UNCHANGED <<cache_stop, cw_pc, cw_key>>
                 ELSE /\ SpawnCacheWorker(key)
                      /\ UNCHANGED <<ui_pc, ui_req>>
    /\ UNCHANGED <<frame_cache, nv12_keys, nv12_cache,
                   nv12_obs>>

\* stop_cache_worker (state.rs:585-593) up to worker.join().
StopCacheWorker ==
    /\ UNCHANGED notCache
    /\ UNCHANGED ringVars
    /\ ui_pc = "idle"
    /\ cw_stop' = StoreStop(cw_stop, cache_stop)
    /\ IF cache_worker.some
         THEN /\ ui_pc' = "join"
              /\ ui_req' = [op |-> "stop_cache_worker",
                            key |-> 0,
                            tid |-> cache_worker.val]
              /\ cache_worker' = None
              /\ UNCHANGED cache_stop
         ELSE /\ cache_stop' = None
              /\ UNCHANGED <<ui_pc, ui_req, cache_worker>>
    /\ UNCHANGED <<cw_pc, cw_key, frame_cache, nv12_keys, nv12_cache,
                   nv12_obs>>

\* worker.join() returns once the joined thread has ended; the caller goes
\* on (state.rs:532, 538-582, 591).
JoinReturn ==
    /\ UNCHANGED notCache
    /\ UNCHANGED ringVars
    /\ ui_pc = "join"
    /\ cw_pc[ui_req.tid] = "exited"
    /\ ui_pc' = "idle"
    /\ ui_req' = NoReq
    /\ IF ui_req.op = "decode_frame_async"
         THEN SpawnCacheWorker(ui_req.key)
         ELSE /\ cache_stop' = None
              /\ UNCHANGED <<cache_worker, cw_pc, cw_stop, cw_key>>
    /\ UNCHANGED <<frame_cache, nv12_keys, nv12_cache,
                   nv12_obs>>

\* Cache worker thread: the stop test before decoding (state.rs:539).
CwStart(tid) ==
    /\ UNCHANGED notCache
    /\ UNCHANGED ringVars
    /\ cw_pc[tid] = "start"
    /\ cw_pc' = [cw_pc EXCEPT ![tid] = IF cw_stop[tid] THEN "exited"
                                       ELSE "decode"]
    /\ UNCHANGED <<ui_pc, ui_req, cache_worker, cache_stop, cw_stop, cw_key,
                   frame_cache, nv12_keys, nv12_cache,
                   nv12_obs>>

\* Cache worker thread: the decode call returns; stop test, cache insert
\* (state.rs:541-581).
CwDecoded(tid, ok) ==
    /\ UNCHANGED notCache
    /\ UNCHANGED ringVars
    /\ cw_pc[tid] = "decode"
    /\ cw_pc' = [cw_pc EXCEPT ![tid] = "exited"]
    /\ frame_cache' = IF ~cw_stop[tid] /\ ok
                        THEN FrameCacheInsert(frame_cache, cw_key[tid])
                        ELSE frame_cache
    /\ UNCHANGED <<ui_pc, ui_req, cache_worker, cache_stop, cw_stop, cw_key,
                   nv12_keys, nv12_cache,
                   nv12_obs>>

\* get_cached_frame (state.rs:507-516): the entry is cloned out of the map,
\* and access_count and last_access are set on the clone.
get_cached_frame(cache, key) ==
    [hit |-> \E i \in 1..Len(cache) : cache[i] = key, cache |-> cache]

\* The insert of a preload thread (state.rs:638-643), for a key it did not
\* find cached (state.rs:624-628).
PreloadInsert(cache, k) ==
    IF Len(cache) < FRAME_CACHE_MAX THEN Append(Remove(cache, k), k) ELSE cache

\* The RGBA cache as its users see it.  use: the cached keys in the order of
\* their last use, an insert or a lookup hit, oldest first; made: keys
\* decoded so far; hits: lookup hits so far; evicted, use_at_evict: the keys
\* the last eviction removed and the order of use it found.
MaxFrameKeys == 1   \* inserts after the first eviction of the RGBA cache
MaxFrameHits == 1   \* lookup hits on the RGBA cache

NoFrameUse ==
    [made |-> 0, use |-> <<>>, hits |-> 0, evicted |-> {}, use_at_evict |-> <<>>]

Keys(cache) == {cache[i] : i \in 1..Len(cache)}

ObserveFrameInsert(obs, before, after, k) ==
    LET gone == Keys(before) \ Keys(after)
        kept == SelectSeq(obs.use, LAMBDA x : x \notin gone /\ x # k)
    IN [obs EXCEPT
          !.made = @ + 1,
          !.use = IF k \in Keys(after) THEN Append(kept, k) ELSE kept,
          !.evicted = IF gone # {} THEN gone ELSE @,
          !.use_at_evict = IF gone # {} THEN obs.use ELSE @]

\* PreviewState::update finds the frame in the cache (state.rs:489-495).
FrameLookup(key) ==
    /\ UNCHANGED notCache
    /\ UNCHANGED ringVars
    /\ get_cached_frame(frame_cache, key).hit
    /\ fc_obs.hits < MaxFrameHits
    /\ frame_cache' = get_cached_frame(frame_cache, key).cache
    /\ fc_obs' = [fc_obs EXCEPT !.hits = @ + 1,
                                !.use = Append(Remove(@, key), key)]
    /\ UNCHANGED <<ui_pc, ui_req, cache_worker, cache_stop, cw_pc, cw_stop,
                   cw_key, nv12_keys, nv12_cache,
                   nv12_obs>>

\* A cache worker inserts the frame it decoded, under the cache's mutex
\* (state.rs:568-575).
FrameWorkerInsert(key) ==
    /\ UNCHANGED notCache
    /\ UNCHANGED ringVars
    /\ frame_cache' = FrameCacheInsert(frame_cache, key)
    /\ fc_obs' = ObserveFrameInsert(fc_obs, frame_cache, frame_cache', key)
    /\ UNCHANGED <<ui_pc, ui_req, cache_worker, cache_stop, cw_pc, cw_stop,
                   cw_key, nv12_keys, nv12_cache,
                   nv12_obs>>

\* A preload thread inserts a frame it decoded, under the cache's mutex
\* (state.rs:638-643).
FramePreloadInsert(key) ==
    /\ UNCHANGED notCache
    /\ UNCHANGED ringVars
    /\ frame_cache' = PreloadInsert(frame_cache, key)
    /\ fc_obs' = ObserveFrameInsert(fc_obs, frame_cache, frame_cache', key)
    /\ UNCHANGED <<ui_pc, ui_req, cache_worker, cache_stop, cw_pc, cw_stop,
                   cw_key, nv12_keys, nv12_cache,
                   nv12_obs>>

\* The NV12 cache bookkeeping of present_yuv (state.rs:332-344): a hit
\* removes the first position of the key and pushes it back; a miss pushes
\* the key and pops the front when more than 64 are held.
Nv12Position(keys, key) == {i \in 1..Len(keys) : keys[i].key = key}
Nv12Touch(keys, e) ==
    LET at == Nv12Position(keys, e.key)
        pos == CHOOSE i \in at : \A j \in at : i <= j
    IN Append(IF at = {} THEN keys
              ELSE SubSeq(keys, 1, pos - 1) \o SubSeq(keys, pos + 1, Len(keys)),
              e)
Nv12InsertUnbounded(keys, e) == Append(keys, e)
Nv12Insert(keys, e) ==
    LET pushed == Append(keys, e)
    IN IF Len(pushed) > NV12_CACHE_MAX THEN Tail(pushed) ELSE pushed

\* nv12_cache.insert and nv12_cache.remove.
Nv12MapInsert(cache, key, sz) ==
    [k \in DOMAIN cache \cup {key} |-> IF k = key THEN sz ELSE cache[k]]
Nv12MapRemove(cache, key) ==
    [k \in DOMAIN cache \ {key} |-> cache[k]]

\* The map after the insert of e and the pop_front that made `keys` of
\* `pushed` (state.rs:342-344).
Nv12MapAfter(cache, e, pushed, keys) ==
    LET put == Nv12MapInsert(cache, e.key, e.sz)
    IN IF Len(keys) < Len(pushed) THEN Nv12MapRemove(put, pushed[1].key)
       ELSE put

\* `self.nv12_cache.get(&key)` (state.rs:332).
Nv12Hit(key) == {k \in DOMAIN nv12_cache : k = key}

\* The lookups made so far: the keys asked for and the last of them, the
\* keys a frame was returned for and the last of them, and how many lookups
\* were hits or ended in a decode error (counted up to MaxOdd).
NoLookups == [seen |-> {}, last |-> 0, got |-> {}, last_got |-> 0, odd |-> 0]
CountOdd(n, hit) == IF hit /\ n < MaxOdd THEN n + 1 ELSE n
Nv12Got(obs, key, ok) ==
    IF ok THEN [obs EXCEPT !.got = @ \cup {key}, !.last_got = key] ELSE obs
Nv12Observe(obs, key, hit) ==
    Nv12Got([obs EXCEPT !.seen = @ \cup {key}, !.last = key,
                        !.odd = CountOdd(@, hit)], key, hit)

\* present_yuv (state.rs:329-350): a cache hit uploads the cached planes; a
\* miss calls media_io::decode_yuv_at on the calling thread.
PresentYuv(key) ==
    /\ UNCHANGED notCache
    /\ ui_pc = "idle"
    /\ ring_pc = "ok"
    /\ nv12_obs' = Nv12Observe(nv12_obs, key, Nv12Hit(key) # {})
    /\ IF Nv12Hit(key) # {}
         THEN LET e == [key |-> key, sz |-> nv12_cache[key]]
              IN /\ nv12_keys' = Nv12Touch(nv12_keys, e)
                 /\ UNCHANGED nv12_cache
                 /\ RingCall(upload_yuv_planes(RingState, e.sz, "exact"),
                             "present_yuv")
                 /\ UNCHANGED <<ui_pc, ui_req>>
         ELSE /\ ui_pc' = "decode_yuv_at"
              /\ ui_req' = [op |-> "present_yuv", key |-> key, tid |-> 0]
              /\ UNCHANGED <<nv12_keys, nv12_cache>>
              /\ UNCHANGED ringVars
    /\ UNCHANGED <<cache_worker, cache_stop, cw_pc, cw_stop, cw_key,
                   frame_cache>>

\* media_io::decode_yuv_at returns: an error ends present_yuv; a frame of
\* size sz is cached and uploaded (state.rs:337-349).
DecodeYuvAtReturn(ok, sz) ==
    /\ UNCHANGED notCache
    /\ ui_pc = "decode_yuv_at"
    /\ ui_pc' = "idle"
    /\ ui_req' = NoReq
    /\ nv12_obs' = Nv12Got([nv12_obs EXCEPT !.odd = CountOdd(@, ~ok)],
                           ui_req.key, ok)
    /\ IF ok
         THEN /\ nv12_keys' = Nv12Insert(nv12_keys,
                                         [key |-> ui_req.key, sz |-> sz])
              /\ nv12_cache' = Nv12MapAfter(nv12_cache,
                                            [key |-> ui_req.key, sz |-> sz],
                                            Append(nv12_keys,
                                                   [key |-> ui_req.key,
                                                    sz |-> sz]),
                                            nv12_keys')
              /\ RingCall(upload_yuv_planes(RingState, sz, "exact"),
                          "present_yuv")
         ELSE /\ UNCHANGED <<nv12_keys, nv12_cache>>
              /\ UNCHANGED ringVars
    /\ UNCHANGED <<cache_worker, cache_stop, cw_pc, cw_stop, cw_key,
                   frame_cache>>

\* present_yuv_with_frame (state.rs:652-681) given a decoded frame of size
\* sz: the frame is inserted and its key pushed without a lookup, the front
\* is popped while more than 64 keys are held (one pop: at most 64 were held
\* before the push), and the planes are uploaded.  Without a frame the call
\* is present_yuv.
PresentYuvWithFrame(key, sz) ==
    /\ UNCHANGED notCache
    /\ ui_pc = "idle"
    /\ ring_pc = "ok"
    /\ nv12_obs' = Nv12Got(Nv12Observe(nv12_obs, key,
                                       Nv12Position(nv12_keys, key) # {}),
                           key, TRUE)
    /\ LET e == [key |-> key, sz |-> sz]
       IN /\ nv12_keys' = Nv12Insert(nv12_keys, e)
          /\ nv12_cache' = Nv12MapAfter(nv12_cache, e, Append(nv12_keys, e),
                                        nv12_keys')
    /\ RingCall(upload_yuv_planes(RingState, sz, "exact"),
                "present_yuv_with_frame")
    /\ UNCHANGED <<ui_pc, ui_req, cache_worker, cache_stop, cw_pc, cw_stop,
                   cw_key, frame_cache>>

\* ------------------------------------------------------------------------
\* Timeline editing: drag preview, finish_drag, split and remove
\* (timeline/ui.rs), on top of the timeline commands

EditStep == 7       \* frames between the pointer positions and split frames
MaxEditSteps == 4   \* largest split frame, in steps
MaxEdits == 2       \* drags, splits and removals

FPS == 30
SNAP_EPS == 3

\* Vec::get, Vec::remove at the first position of x, Vec::insert (indices
\* count from 0 as in the source).
Get(seq, i) == IF i + 1 \in DOMAIN seq THEN Some(seq[i + 1]) ELSE None
RemoveFirst(seq, x) ==
    IF \E i \in DOMAIN seq : seq[i] = x
      THEN LET p == CHOOSE i \in DOMAIN seq :
                       seq[i] = x /\ \A j \in 1..(i - 1) : seq[j] # x
           IN SubSeq(seq, 1, p - 1) \o SubSeq(seq, p + 1, Len(seq))
      ELSE seq
InsertAt(seq, pos, x) ==
    SubSeq(seq, 1, pos) \o <<x>> \o SubSeq(seq, pos + 1, Len(seq))

\* HashMap::remove and HashMap::insert on graph.nodes.
DropKey(f, k) == [j \in DOMAIN f \ {k} |-> f[j]]
PutKey(f, k, v) == [j \in DOMAIN f \cup {k} |-> IF j = k THEN v ELSE f[j]]

\* The timeline commands (spec 4.1, applyCommand): InsertNode puts the node
\* into the map and its id into the track of the placement, at the position
\* or at the end; UpdateNode replaces the node; RemoveNode takes it out of the
\* map and out of the tracks.  A command that breaks an invariant (id
\* collision, track not found, placement out of range, no such node) fails
\* and leaves the graph alone.
InsertNode(id, node, track, position) ==
    [id |-> id,
     type |-> "InsertNode",
     node |-> Some(node),
     track |-> track,
     position |-> position]
UpdateNode(id, node) ==
    [id |-> id,
     type |-> "UpdateNode",
     node |-> Some(node),
     track |-> 0,
     position |-> None]
RemoveNode(id) ==
    [id |-> id,
     type |-> "RemoveNode",
     node |-> None,
     track |-> 0,
     position |-> None]

InvalidOp(g, cmd) ==
    CASE cmd.type = "InsertNode" ->
           \/ cmd.id \in DOMAIN g.nodes
           \/ cmd.track + 1 \notin DOMAIN g.tracks
           \/ /\ cmd.track + 1 \in DOMAIN g.tracks
              /\ cmd.position.some
              /\ cmd.position.val > Len(g.tracks[cmd.track + 1].node_ids)
      [] OTHER -> cmd.id \notin DOMAIN g.nodes

TimelineApply(g, cmd) ==
    CASE cmd.type = "InsertNode" ->
           LET ids == g.tracks[cmd.track + 1].node_ids
               pos == IF cmd.position.some THEN cmd.position.val ELSE Len(ids)
           IN [g EXCEPT !.nodes = PutKey(@, cmd.id, cmd.node.val),
                        !.tracks[cmd.track + 1].node_ids =
                            InsertAt(ids, pos, cmd.id)]
      [] cmd.type = "UpdateNode" ->
           [g EXCEPT !.nodes = PutKey(@, cmd.id, cmd.node.val)]
      [] OTHER ->
           [g EXCEPT !.nodes = DropKey(@, cmd.id),
                     !.tracks = [t \in DOMAIN g.tracks |->
                                   [g.tracks[t] EXCEPT !.node_ids =
                                       SelectSeq(@, LAMBDA x : x # cmd.id)]]]

\* App::apply_timeline_command (app.rs:87-91).  `accepts` is the verdict of
\* the invariant checks of the timeline crate that the three causes above do
\* not cover.
apply_timeline_command(g, cmd, accepts) ==
    IF ~accepts \/ InvalidOp(g, cmd)
      THEN [graph |-> g, ok |-> FALSE]
      ELSE [graph |-> TimelineApply(g, cmd), ok |-> TRUE]

\* Position of the first x in seq, counted from 0 (Iterator::position).
Position(seq, x) ==
    IF \E i \in DOMAIN seq : seq[i] = x
      THEN Some((CHOOSE i \in DOMAIN seq :
                    seq[i] = x /\ \A j \in 1..(i - 1) : seq[j] # x) - 1)
      ELSE None

\* update_selection_for_node (timeline/ui.rs:95-102).
update_selection_for_node(g, sel, id) ==
    LET holds == {t \in DOMAIN g.tracks : Position(g.tracks[t].node_ids, id).some}
    IN IF holds = {} THEN sel
       ELSE LET t == CHOOSE t \in holds : \A u \in holds : t <= u
            IN Some(<<t - 1, Position(g.tracks[t].node_ids, id).val>>)

\* move_node_between_tracks (timeline/ui.rs:104-117).
MoveKeepsSource(g, d, target) ==
    IF target >= Len(g.tracks) \/ d.current_track_index = target
      THEN [drag |-> d, graph |-> g]
      ELSE [drag |-> [d EXCEPT !.current_track_index = target],
            graph |-> [g EXCEPT !.tracks[target + 1].node_ids =
                                    Append(@, d.node_id)]]
move_node_between_tracks(g, d, target) ==
    IF target >= Len(g.tracks) \/ d.current_track_index = target
      THEN [drag |-> d, graph |-> g]
      ELSE LET g1 == [g EXCEPT !.tracks[d.current_track_index + 1].node_ids =
                                   RemoveFirst(@, d.node_id)]
           IN [drag |-> [d EXCEPT !.current_track_index = target],
               graph |-> [g1 EXCEPT !.tracks[target + 1].node_ids =
                                        Append(@, d.node_id)]]

\* restore_drag_preview (timeline/ui.rs:119-136).
Min(a, b) == IF a < b THEN a ELSE b
Max(a, b) == IF a > b THEN a ELSE b
restore_drag_preview(g, d) ==
    LET cleared == [t \in DOMAIN g.tracks |->
                      [g.tracks[t] EXCEPT !.node_ids = RemoveFirst(@, d.node_id)]]
        home == d.original_track_index + 1
        pos == Min(d.original_position, Len(cleared[home].node_ids))
    IN [tracks |-> [cleared EXCEPT ![home].node_ids =
                                       InsertAt(@, pos, d.node_id)],
        nodes |-> PutKey(g.nodes, d.node_id, d.original_node)]

\* preview_move_node, preview_trim_start_node, preview_trim_end_node
\* (timeline/ui.rs:138-185).
HasRange(node) == node.shape.kind \in {"Clip", "Generator"}
preview_move_node(g, d, new_from) ==
    IF d.node_id \in DOMAIN g.nodes /\ HasRange(g.nodes[d.node_id])
      THEN [g EXCEPT !.nodes[d.node_id].start = new_from,
                     !.nodes[d.node_id].duration = d.orig_dur]
      ELSE g
preview_trim_start_node(g, d, new_from, new_duration, delta_frames) ==
    IF d.node_id \notin DOMAIN g.nodes THEN g
    ELSE LET k == g.nodes[d.node_id].shape.kind
         IN IF k = "Clip" /\ d.original_node.shape.kind = "Clip"
              THEN [g EXCEPT !.nodes[d.node_id].start = new_from,
                             !.nodes[d.node_id].duration = new_duration,
                             !.nodes[d.node_id].media_start =
                                 d.original_node.media_start + delta_frames,
                             !.nodes[d.node_id].media_dur = new_duration]
            ELSE IF k = "Generator" /\ d.original_node.shape.kind = "Generator"
              THEN [g EXCEPT !.nodes[d.node_id].start = new_from,
                             !.nodes[d.node_id].duration = new_duration]
            ELSE g
preview_trim_end_node(g, d, new_duration) ==
    IF d.node_id \notin DOMAIN g.nodes THEN g
    ELSE LET k == g.nodes[d.node_id].shape.kind
         IN IF k = "Clip"
              THEN [g EXCEPT !.nodes[d.node_id].duration = new_duration,
                             !.nodes[d.node_id].media_dur = new_duration]
            ELSE IF k = "Generator"
              THEN [g EXCEPT !.nodes[d.node_id].duration = new_duration]
            ELSE g

\* The snap of update_drag_preview: (x / fps).round() * fps, taken when it is
\* within eps frames of x (timeline/ui.rs:197-204); x is not negative.
SnapToSecond(x) ==
    LET secf == ((2 * x + FPS) \div (2 * FPS)) * FPS
    IN IF secf - x <= SNAP_EPS /\ x - secf <= SNAP_EPS THEN secf ELSE x

\* update_drag_preview (timeline/ui.rs:187-228) for a pointer over track
\* `target`, df frames away from where the drag started.
update_drag_preview(g, d, target, df) ==
    LET m == move_node_between_tracks(g, d, target)
        g1 == m.graph
    IN [drag |-> m.drag,
        graph |->
          CASE d.mode = "Move" ->
                 preview_move_node(g1, d, SnapToSecond(Max(d.orig_from + df, 0)))
            [] d.mode = "TrimStart" ->
                 LET new_from == SnapToSecond(clamp(d.orig_from + df, 0,
                                                    d.orig_from + d.orig_dur - 1))
                     delta_frames == Max(new_from - d.orig_from, 0)
                     new_duration == Max(d.orig_dur - delta_frames, 1)
                 IN preview_trim_start_node(g1, d, new_from, new_duration,
                                            delta_frames)
            [] OTHER ->
                 LET dur == Max(d.orig_dur + df, 1)
                     end == d.orig_from + dur
                     new_duration == IF SnapToSecond(end) # end
                                       THEN Max(SnapToSecond(end) - d.orig_from, 1)
                                       ELSE dur
                 IN preview_trim_end_node(g1, d, new_duration)]

\* What the last edit was, and whether one of its commands failed or all of
\* them went through.
NoEdit == [op |-> "none", failed |-> FALSE, done |-> FALSE]

\* finish_drag (timeline/ui.rs:230-272).  a1 and a2 are the verdicts for its
\* first and second command.
finish_drag(g, sel, d, a1, a2) ==
    LET final_node == IF d.node_id \in DOMAIN g.nodes
                        THEN Some(g.nodes[d.node_id]) ELSE None
        g0 == restore_drag_preview(g, d)
        track_changed == d.current_track_index # d.original_track_index
        log == [NoEdit EXCEPT !.op = "finish_drag"]
        failed == [log EXCEPT !.failed = TRUE]
        done == [log EXCEPT !.done = TRUE]
    IN IF ~final_node.some
         THEN [graph |-> g0, log |-> log, selected |-> sel]
       ELSE IF ~track_changed /\ final_node.val = d.original_node
         THEN [graph |-> g0,
               log |-> log,
               selected |-> update_selection_for_node(g0, sel, d.node_id)]
       ELSE IF track_changed
         THEN LET r1 == apply_timeline_command(g0, RemoveNode(d.node_id), a1)
                  r2 == apply_timeline_command(r1.graph,
                            InsertNode(d.node_id, final_node.val,
                                       d.current_track_index, None), a2)
              IN IF ~r1.ok
                   THEN [graph |-> r1.graph, log |-> failed, selected |-> sel]
                 ELSE IF ~r2.ok
                   THEN [graph |-> r2.graph, log |-> failed, selected |-> sel]
                 ELSE [graph |-> r2.graph,
                       log |-> done,
                       selected |->
                         update_selection_for_node(r2.graph, sel, d.node_id)]
       ELSE LET r == apply_timeline_command(g0,
                         UpdateNode(d.node_id, final_node.val), a1)
            IN IF ~r.ok
                 THEN [graph |-> r.graph, log |-> failed, selected |-> sel]
                 ELSE [graph |-> r.graph,
                       log |-> done,
                       selected |->
                         update_selection_for_node(r.graph, sel, d.node_id)]

\* The media range of the right half of a split clip starts left_dur frames
\* into the media range of the clip (timeline/ui.rs:307).
RightMediaStartSame(media_start, left_dur) == media_start
RightMediaStart(media_start, left_dur) == media_start + left_dur

\* split_clip_at_frame (timeline/ui.rs:274-362).  new_id is what
\* NodeId::new() returns, a1 and a2 the verdicts for UpdateNode and
\* InsertNode.  `made` tells whether NodeId::new() was called.
split_clip_at_frame(g, sel, track, item, split_frame, new_id, a1, a2) ==
    LET quiet == [graph |-> g, log |-> NoEdit, selected |-> sel, made |-> FALSE]
    IN IF ~Get(g.tracks, track).some THEN quiet
       ELSE LET node_id == Get(g.tracks[track + 1].node_ids, item)
            IN IF ~node_id.some THEN quiet
               ELSE IF node_id.val \notin DOMAIN g.nodes THEN quiet
               ELSE LET node == g.nodes[node_id.val]
                        start == node.start
                        end == node.start + node.duration
                        left_dur == split_frame - start
                        right_dur == end - split_frame
                        is_clip == node.shape.kind = "Clip"
                        left == IF is_clip
                                  THEN [node EXCEPT !.duration = left_dur,
                                                    !.media_dur = left_dur]
                                  ELSE [node EXCEPT !.duration = left_dur]
                        right == IF is_clip
                                   THEN [node EXCEPT
                                           !.start = split_frame,
                                           !.duration = right_dur,
                                           !.media_start =
                                              RightMediaStart(node.media_start,
                                                              left_dur),
                                           !.media_dur = right_dur]
                                   ELSE [node EXCEPT !.start = split_frame,
                                                     !.duration = right_dur]
                        r1 == apply_timeline_command(g,
                                  UpdateNode(node_id.val, left), a1)
                        r2 == apply_timeline_command(r1.graph,
                                  InsertNode(new_id, right, track,
                                             Some(item + 1)), a2)
                        log == [NoEdit EXCEPT !.op = "split"]
                    IN IF ~HasRange(node) THEN quiet
                       ELSE IF split_frame <= start \/ split_frame >= end
                         THEN quiet
                       ELSE IF ~r1.ok
                         THEN [graph |-> r1.graph,
                               log |-> [log EXCEPT !.failed = TRUE],
                               selected |-> sel,
                               made |-> FALSE]
                       ELSE IF ~r2.ok
                         THEN [graph |-> r2.graph,
                               log |-> [log EXCEPT !.failed = TRUE],
                               selected |-> sel,
                               made |-> TRUE]
                       ELSE [graph |-> r2.graph,
                             log |-> [log EXCEPT !.done = TRUE],
                             selected |-> Some(<<track, item + 1>>),
                             made |-> TRUE]

\* remove_clip (timeline/ui.rs:364-378), called with the selection taken.
remove_clip(g, track, item, a1) ==
    LET quiet == [graph |-> g, log |-> NoEdit]
    IN IF ~Get(g.tracks, track).some THEN quiet
       ELSE LET node_id == Get(g.tracks[track + 1].node_ids, item)
            IN IF ~node_id.some THEN quiet
               ELSE LET r == apply_timeline_command(g, RemoveNode(node_id.val),
                                                    a1)
                        log == [NoEdit EXCEPT !.op = "remove"]
                    IN [graph |-> r.graph,
                        log |-> IF r.ok THEN [log EXCEPT !.done = TRUE]
                                        ELSE [log EXCEPT !.failed = TRUE]]

\* The clips drawn by timeline_ui: (track, item) pairs whose node has a
\* frame range (timeline/ui.rs:411-428).
DrawnClips ==
    {ti \in UNION {{<<t - 1, i - 1>> : i \in DOMAIN graph.tracks[t].node_ids} :
                      t \in DOMAIN graph.tracks} :
        /\ graph.tracks[ti[1] + 1].node_ids[ti[2] + 1] \in DOMAIN graph.nodes
        /\ HasRange(graph.nodes[graph.tracks[ti[1] + 1].node_ids[ti[2] + 1]])}

\* timeline_ui, a click on a clip (timeline/ui.rs:476).
ClipClicked(t, i) ==
    /\ UNCHANGED notEdit
    /\ <<t, i>> \in DrawnClips
    /\ selected' = Some(<<t, i>>)
    /\ edit_log' = NoEdit
    /\ UNCHANGED <<graph, drag, next_id, edits>>

\* timeline_ui, a drag starts on a clip (timeline/ui.rs:477-507).
DragStarted(t, i, drag_mode) ==
    /\ UNCHANGED notEdit
    /\ ~drag.some
    /\ edits < MaxEdits
    /\ edits' = edits + 1
    /\ <<t, i>> \in DrawnClips
    /\ LET node_id == graph.tracks[t + 1].node_ids[i + 1]
           node == graph.nodes[node_id]
       IN drag' = Some([mode |-> drag_mode,
                        original_track_index |-> t,
                        current_track_index |-> t,
                        orig_from |-> node.start,
                        orig_dur |-> node.duration,
                        node_id |-> node_id,
                        original_node |-> node,
                        original_position |-> i])
    /\ selected' = Some(<<t, i>>)
    /\ edit_log' = NoEdit
    /\ UNCHANGED <<graph, next_id>>

\* timeline_ui while the pointer is down on a drag (timeline/ui.rs:571-576).
DragPreview(target, df) ==
    /\ UNCHANGED notEdit
    /\ drag.some
    /\ \E r \in {update_drag_preview(graph, drag.val, target, df)} :
          /\ graph' = r.graph
          /\ drag' = Some(r.drag)
          /\ selected' = update_selection_for_node(r.graph, selected,
                                                   drag.val.node_id)
    /\ edit_log' = NoEdit
    /\ UNCHANGED <<next_id, edits>>

\* timeline_ui when the pointer is released (timeline/ui.rs:566-570, 578-580).
DragReleased(a1, a2) ==
    /\ UNCHANGED notEdit
    /\ drag.some
    /\ \E r \in {finish_drag(graph, selected, drag.val, a1, a2)} :
          /\ graph' = r.graph
          /\ selected' = r.selected
          /\ edit_log' = r.log
    /\ drag' = None
    /\ UNCHANGED <<next_id, edits>>

\* timeline_ui, the split hotkey at playhead frame split_frame
\* (timeline/ui.rs:551-560).
SplitKey(split_frame, a1, a2) ==
    /\ UNCHANGED notEdit
    /\ selected.some
    /\ edits < MaxEdits
    /\ \E r \in {split_clip_at_frame(graph, selected, selected.val[1],
                                       selected.val[2], split_frame, next_id,
                                       a1, a2)} :
          /\ graph' = r.graph
          /\ selected' = r.selected
          /\ edit_log' = r.log
          /\ next_id' = IF r.made THEN next_id + 1 ELSE next_id
          /\ edits' = IF r.log.op = "split" THEN edits + 1 ELSE edits
    /\ UNCHANGED drag

\* timeline_ui, the delete hotkey (timeline/ui.rs:561-565).
DeleteKey(a1) ==
    /\ UNCHANGED notEdit
    /\ selected.some
    /\ edits < MaxEdits
    /\ \E r \in {remove_clip(graph, selected.val[1], selected.val[2], a1)} :
          /\ graph' = r.graph
          /\ edit_log' = r.log
          /\ edits' = IF r.log.op = "remove" THEN edits + 1 ELSE edits
    /\ selected' = None
    /\ UNCHANGED <<drag, next_id>>

\* The graphs the edits start from, on the tracks of App::new: a clip with
\* timeline range (3, 2) steps and media start 20 steps on V1, or a solid
\* generator on V2.
EditClip(start, duration, media_start) ==
    [shape |-> [kind |-> "Clip", has_asset |-> TRUE, generator_id |-> "-"],
     start |-> start * EditStep, duration |-> duration * EditStep,
     media_start |-> media_start * EditStep,
     media_dur |-> duration * EditStep]
EditSolid(start, duration) ==
    [shape |-> [kind |-> "Generator", has_asset |-> FALSE,
                generator_id |-> "solid"],
     start |-> start * EditStep, duration |-> duration * EditStep,
     media_start |-> 0, media_dur |-> 0]
EditGraphs ==
    {MkGraph(<<EditClip(3, 2, 20)>>, <<1>>, AppTracks),
     MkGraph(<<EditSolid(2, 2)>>, <<2>>, AppTracks)}

DragModes == {"Move", "TrimStart", "TrimEnd"}
DragDeltas == {0 - EditStep, 0, EditStep}
SplitFrames == {k * EditStep : k \in 0..MaxEditSteps}

\* ------------------------------------------------------------------------
\* Plane formats: the frames handed to the presenter, the formats of the ring
\* textures they are copied into, and the shader that draws them
\* (preview/state.rs, preview/ui.rs).  The ring indices of the same calls are
\* followed by the ring model above.

MaxDim == 3         \* largest frame height; widths are 1..MaxDim and 129..

PixFmts == {"Nv12", "P010"}
FrameWidths == (1..MaxDim) \cup {128 + k : k \in 1..MaxDim}
FrameHeights == 1..MaxDim

\* Solid frames: (Y, U, V) of every pixel, 8-bit for NV12 and 10-bit for
\* P010: mid-gray and white.
Pixels(fmt) ==
    IF fmt = "Nv12" THEN {<<126, 128, 128>>, <<235, 128, 128>>}
                    ELSE {<<512, 512, 512>>, <<940, 512, 512>>}

\* align_to (state.rs:1403).
align_to(v, align) == ((v + align - 1) \div align) * align

\* (y_bpp, uv_bpp_per_texel) of a format (state.rs:199, 699).
BytesPerTexel(fmt) ==
    IF fmt = "Nv12" THEN [y |-> 1, uv |-> 2] ELSE [y |-> 2, uv |-> 4]

\* expected_y and expected_uv of present_yuv_from_bytes (state.rs:701-708).
ExpectedLens(fmt, w, h) ==
    [y |-> w * BytesPerTexel(fmt).y * h,
     uv |-> ((w + 1) \div 2) * BytesPerTexel(fmt).uv * ((h + 1) \div 2)]

\* A frame of the decode worker or of media_io::decode_yuv_at, with planes
\* of the expected lengths.
DecodedFrame(fmt, w, h, pix) ==
    [fmt |-> fmt, w |-> w, h |-> h, pix |-> pix,
     y_len |-> ExpectedLens(fmt, w, h).y,
     uv_len |-> ExpectedLens(fmt, w, h).uv]

\* decode_video_frame_nv12_only (state.rs:1376-1397) on a w x h source whose
\* ffmpeg output is long enough: Y is the first w*h bytes, UV the next
\* expected - w*h bytes.
decode_video_frame_nv12_only(w, h, pix) ==
    LET expected == w * h + (w * h) \div 2
        y_bytes == w * h
    IN [fmt |-> "Nv12", w |-> w, h |-> h, pix |-> pix, y_len |-> y_bytes,
        uv_len |-> expected - y_bytes]

\* The texture formats ensure_yuv_textures picks (state.rs:125-136).
TextureFormats(fmt, supports16) ==
    IF fmt = "Nv12" THEN [y |-> "R8Unorm", uv |-> "Rg8Unorm"]
    ELSE IF supports16 THEN [y |-> "R16Unorm", uv |-> "Rg16Unorm"]
    ELSE [y |-> "R16Uint", uv |-> "Rg16Uint"]

\* ensure_yuv_textures (state.rs:118-182) with the formats: the textures are
\* kept when they exist at this size, whatever fmt is; new ones take the
\* formats and padded row sizes of fmt.
ensure_yuv_formats(t, w, h, fmt) ==
    IF t.y_size = <<w, h>> /\ t.made THEN t
    ELSE [t EXCEPT !.y_size = <<w, h>>,
                   !.made = TRUE,
                   !.y_format = TextureFormats(fmt, t.supports16).y,
                   !.uv_format = TextureFormats(fmt, t.supports16).uv,
                   !.y_pad_bpr = align_to(w * BytesPerTexel(fmt).y, 256),
                   !.uv_pad_bpr = align_to(((w + 1) \div 2)
                                             * BytesPerTexel(fmt).uv, 256)]

\* use_uint of render_cpu_frame (preview/ui.rs:23).
use_uint(fmt, supports16) == fmt = "P010" /\ ~supports16

\* n / d in thousandths, rounded down.
Milli(n, d) == (n * 1000) \div d

\* The 10 bits of a left-justified 16-bit sample: (x >> 6) & 1023
\* (state.rs:1038-1040).
Recover10(x16) == (x16 \div 64) % 1024

\* The BT.709 matrix both fragment shaders end with (state.rs:907-909,
\* 1044-1046), on C, D, E in thousandths.
Bt709(C, D, E) ==
    [r |-> C + (15748 * E) \div 10000,
     g |-> C - (1873 * D) \div 10000 - (4681 * E) \div 10000,
     b |-> C + (18556 * D) \div 10000]

\* fs_main of the uint pipeline (state.rs:1031-1048) with the Conv uniform
\* that prepare uploads for it (state.rs:1065): offsets 64/1023 and
\* 512/1023, scales 1/876 and 1/896.  x16 holds the texel's (Y, U, V).
UintShader(x16) ==
    LET y10 == Milli(Recover10(x16[1]), 1023)
        u10 == Milli(Recover10(x16[2]), 1023)
        v10 == Milli(Recover10(x16[3]), 1023)
        y709 == (Max(y10 - Milli(64, 1023), 0) * 1) \div 876
        u == ((u10 - Milli(512, 1023)) * 1) \div 896
        v == ((v10 - Milli(512, 1023)) * 1) \div 896
    IN Bt709(y709, u, v)

\* fs_main of the float pipeline in its NV12 mode (state.rs:901-910) with
\* the Conv uniform of prepare (state.rs:1112-1115).  The texels are
\* normalised by the texture unit: x / 255 for 8 bits, x / 65535 for 16.
FloatShader(fmt, x) ==
    LET den == IF fmt = "Nv12" THEN 255 ELSE 65535
        y_bias == IF fmt = "Nv12" THEN Milli(16, 255) ELSE Milli(64, 1023)
        uv_bias == IF fmt = "Nv12" THEN Milli(128, 255) ELSE Milli(512, 1023)
        C == IF fmt = "Nv12"
               THEN Max(((Milli(x[1], den) - y_bias) * 255) \div 219, 0)
               ELSE Max(((Milli(x[1], den) - y_bias) * 1023) \div 876, 0)
        D == IF fmt = "Nv12"
               THEN ((Milli(x[2], den) - uv_bias) * 255) \div 224
               ELSE ((Milli(x[2], den) - uv_bias) * 1023) \div 896
        E == IF fmt = "Nv12"
               THEN ((Milli(x[3], den) - uv_bias) * 255) \div 224
               ELSE ((Milli(x[3], den) - uv_bias) * 1023) \div 896
        rgb == Bt709(C, D, E)
    IN [r |-> clamp(rgb.r, 0, 1000), g |-> clamp(rgb.g, 0, 1000),
        b |-> clamp(rgb.b, 0, 1000)]

\* The texel of a solid frame as it is stored in the plane: 8-bit samples as
\* they are, 10-bit samples left-justified in 16 bits.
Texel(fmt, pix) ==
    IF fmt = "Nv12" THEN pix ELSE <<pix[1] * 64, pix[2] * 64, pix[3] * 64>>

NoFrame == [fmt |-> "Nv12", w |-> 0, h |-> 0, pix |-> <<0, 0, 0>>,
            y_len |-> 0, uv_len |-> 0]
NoTexLog ==
    [frame |-> NoFrame,
     path |-> "none",
     op |-> "none",
     use_uint |-> FALSE,
     rgb |-> None]

\* render_cpu_frame (preview/ui.rs:12-28) on a frame of the decode worker:
\* present_yuv_from_bytes makes sure of the textures, rejects planes of the
\* wrong length and copies the rest (state.rs:683-782); the callback draws
\* with the uint pipeline when use_uint, else with the float one.  A
\* pipeline bound to textures of another kind draws nothing.
RenderCpuFrame(f) ==
    /\ UNCHANGED notTex
    /\ LET t1 == ensure_yuv_formats(tex, f.w, f.h, f.fmt)
           ok == /\ f.y_len = ExpectedLens(f.fmt, f.w, f.h).y
                 /\ f.uv_len = ExpectedLens(f.fmt, f.w, f.h).uv
           uint == use_uint(f.fmt, tex.supports16)
           fits == t1.y_format = TextureFormats(f.fmt, tex.supports16).y
       IN /\ tex' = t1
          /\ tex_log' =
               [frame |-> f,
                path |-> "render_cpu_frame",
                op |-> IF ok THEN "upload" ELSE "reject",
                use_uint |-> ok /\ uint,
                rgb |-> IF ~ok \/ ~fits THEN None
                        ELSE IF uint THEN Some(UintShader(Texel(f.fmt, f.pix)))
                        ELSE Some(FloatShader(f.fmt, Texel(f.fmt, f.pix)))]

\* present_yuv on a cache miss (state.rs:337-347): the frame of
\* decode_yuv_at, replaced by the one of decode_video_frame_nv12_only when
\* it is P010 and the device has no 16-bit normalized textures, goes to
\* upload_yuv_planes, whose row copies slice a plane that is too short out
\* of range (state.rs:206-216).
PresentYuvMiss(f) ==
    /\ UNCHANGED notTex
    /\ LET g == IF f.fmt = "P010" /\ ~tex.supports16
                  THEN decode_video_frame_nv12_only(f.w, f.h, <<126, 128, 128>>)
                  ELSE f
           t1 == ensure_yuv_formats(tex, g.w, g.h, g.fmt)
           short == \/ g.y_len < ExpectedLens(g.fmt, g.w, g.h).y
                    \/ g.uv_len < ExpectedLens(g.fmt, g.w, g.h).uv
       IN /\ tex' = t1
          /\ tex_log' = [frame |-> g,
                         path |-> "present_yuv",
                         op |-> IF short THEN "panic" ELSE "upload",
                         use_uint |-> FALSE,
                         rgb |-> None]

\* PreviewState::new (state.rs:69-115): no textures yet.
NewTex(supports16) ==
    [made |-> FALSE,
     y_size |-> <<0, 0>>,
     y_format |-> "none",
     uv_format |-> "none",
     y_pad_bpr |-> 0,
     uv_pad_bpr |-> 0,
     supports16 |-> supports16]

IdleTex ==
    /\ tex = NewTex(TRUE)
    /\ tex_log = NoTexLog

\* ------------------------------------------------------------------------
\* Background jobs: JobsHandle, the feeder thread and the worker threads
\* (crates/jobs/src/lib.rs)

MaxJobs == 1        \* jobs enqueued
MaxCancels == 1     \* cancel_job calls

NUM_WORKERS == 2
JOB_STEPS == 20

JobIds == 1..MaxJobs
JobWorkers == 1..NUM_WORKERS

\* JobStatus.  Progress carries the step it reports.
JobEvent(status, step) == [status |-> status, step |-> step]
Terminal == {"Done", "Canceled"}

\* tx_e.send(JobEvent { id, status }) (lib.rs:90, 123, 126, 131, 132, 135).
SendEvent(events, id, status, step) ==
    [events EXCEPT ![id] = Append(@, JobEvent(status, step))]

\* The pop loop of a worker (lib.rs:116-118): entries whose id is canceled
\* are popped and dropped, the first other one is taken.
RECURSIVE PopJob(_, _)
PopJob(q, c) ==
    IF q = <<>> THEN [found |-> None, queue |-> q]
    ELSE IF Head(q) \notin c THEN [found |-> Some(Head(q)), queue |-> Tail(q)]
    ELSE PopJob(Tail(q), c)

FeederIdle == [id |-> 0, pc |-> "select"]
WorkerIdle == [id |-> 0, pc |-> "pop", i |-> 0]

\* JobsRuntime::start (lib.rs:66-104): empty channels, queue and set.
IdleJobs ==
    /\ rx_submit = <<>>
    /\ rx_cancel = <<>>
    /\ job_queue = <<>>
    /\ canceled = {}
    /\ rx_events = [j \in JobIds |-> <<>>]
    /\ feeder = FeederIdle
    /\ job_worker = [w \in JobWorkers |-> WorkerIdle]
    /\ job_next = 1
    /\ job_cancels = 0

\* JobsHandle::enqueue (lib.rs:146-150).
Enqueue ==
    /\ UNCHANGED notJobs
    /\ job_next <= MaxJobs
    /\ rx_submit' = Append(rx_submit, job_next)
    /\ job_next' = job_next + 1
    /\ UNCHANGED <<rx_cancel, job_queue, canceled, rx_events, feeder,
                   job_worker, job_cancels>>

\* JobsHandle::cancel_job (lib.rs:156-158) with an id enqueue returned.
CancelJob(id) ==
    /\ UNCHANGED notJobs
    /\ id < job_next
    /\ job_cancels < MaxCancels
    /\ rx_cancel' = Append(rx_cancel, id)
    /\ job_cancels' = job_cancels + 1
    /\ UNCHANGED <<rx_submit, job_queue, canceled, rx_events, feeder,
                   job_worker, job_next>>

\* Feeder, the submit arm of select! up to the push (lib.rs:86-89): a
\* canceled id is dropped with `continue`.
FeederSubmit ==
    /\ UNCHANGED notJobs
    /\ feeder.pc = "select"
    /\ rx_submit # <<>>
    /\ rx_submit' = Tail(rx_submit)
    /\ IF Head(rx_submit) \in canceled
         THEN UNCHANGED <<job_queue, feeder>>
         ELSE /\ job_queue' = Append(job_queue, Head(rx_submit))
              /\ feeder' = [id |-> Head(rx_submit), pc |-> "send_pending"]
    /\ UNCHANGED <<rx_cancel, canceled, rx_events, job_worker, job_next,
                   job_cancels>>

\* Feeder, the send of Pending after the push (lib.rs:90).
FeederPending ==
    /\ UNCHANGED notJobs
    /\ feeder.pc = "send_pending"
    /\ rx_events' = SendEvent(rx_events, feeder.id, "Pending", 0)
    /\ feeder' = FeederIdle
    /\ UNCHANGED <<rx_submit, rx_cancel, job_queue, canceled, job_worker,
                   job_next, job_cancels>>

\* Feeder, the cancel arm of select! (lib.rs:94-97).
FeederCancel ==
    /\ UNCHANGED notJobs
    /\ feeder.pc = "select"
    /\ rx_cancel # <<>>
    /\ rx_cancel' = Tail(rx_cancel)
    /\ canceled' = canceled \cup {Head(rx_cancel)}
    /\ UNCHANGED <<rx_submit, job_queue, rx_events, feeder, job_worker,
                   job_next, job_cancels>>

\* Worker w takes a job under the queue's lock (lib.rs:113-120).  With an
\* empty queue it sleeps and tries again.
WorkerPop(w) ==
    /\ UNCHANGED notJobs
    /\ job_worker[w].pc = "pop"
    /\ job_queue # <<>>
    /\ LET r == PopJob(job_queue, canceled)
       IN /\ job_queue' = r.queue
          /\ job_worker' = IF r.found.some
                             THEN [job_worker EXCEPT
                                     ![w] = [id |-> r.found.val,
                                             pc |-> "check",
                                             i |-> 0]]
                             ELSE job_worker
    /\ UNCHANGED <<rx_submit, rx_cancel, canceled, rx_events, feeder, job_next,
                   job_cancels>>

\* Worker w with a job: Canceled if it is canceled by now, else Running
\* (lib.rs:121-126).
WorkerCheck(w) ==
    /\ UNCHANGED notJobs
    /\ job_worker[w].pc = "check"
    /\ LET id == job_worker[w].id
       IN IF id \in canceled
            THEN /\ rx_events' = SendEvent(rx_events, id, "Canceled", 0)
                 /\ job_worker' = [job_worker EXCEPT ![w] = WorkerIdle]
            ELSE /\ rx_events' = SendEvent(rx_events, id, "Running", 0)
                 /\ job_worker' = [job_worker EXCEPT ![w].pc = "step"]
    /\ UNCHANGED <<rx_submit, rx_cancel, job_queue, canceled, feeder, job_next,
                   job_cancels>>

\* Worker w, one pass of the progress loop (lib.rs:129-133).
WorkerStep(w) ==
    /\ UNCHANGED notJobs
    /\ job_worker[w].pc = "step"
    /\ LET id == job_worker[w].id
           i == job_worker[w].i
       IN IF id \in canceled
            THEN /\ rx_events' = SendEvent(rx_events, id, "Canceled", 0)
                 /\ job_worker' = [job_worker EXCEPT ![w].pc = "done"]
            ELSE /\ rx_events' = SendEvent(rx_events, id, "Progress", i + 1)
                 /\ job_worker' =
                      [job_worker EXCEPT
                         ![w].i = i + 1,
                         ![w].pc = IF i + 1 < JOB_STEPS THEN "step" ELSE "done"]
    /\ UNCHANGED <<rx_submit, rx_cancel, job_queue, canceled, feeder, job_next,
                   job_cancels>>

\* Worker w after the loop: Done unless the job is canceled (lib.rs:134-136).
WorkerDone(w) ==
    /\ UNCHANGED notJobs
    /\ job_worker[w].pc = "done"
    /\ rx_events' = IF job_worker[w].id \in canceled THEN rx_events
                    ELSE SendEvent(rx_events, job_worker[w].id, "Done", 0)
    /\ job_worker' = [job_worker EXCEPT ![w] = WorkerIdle]
    /\ UNCHANGED <<rx_submit, rx_cancel, job_queue, canceled, feeder, job_next,
                   job_cancels>>

\* ------------------------------------------------------------------------
\* Specifications: one per component; the other components stay idle.

IdleWorker ==
    /\ wpc = "init"
    /\ cmd_rx = <<>>
    /\ mode = "Paused"
    /\ rate = 1
    /\ anchor_pts = 0
    /\ anchor_t = 0
    /\ running = TRUE
    /\ slot = None
    /\ wnow = 0
    /\ sent_n = 0
    /\ sent_last = None
    /\ sent_fold = WorkerInitState(0)
    /\ published = <<>>
    /\ taken = <<>>
    /\ wlog = NoWorkerLog

IdleGraph ==
    /\ graph = EmptyGraph
    /\ vs_playhead = 0
    /\ vs_result = [called |-> FALSE, source |-> None]

\* App::new (app.rs:43-85).
IdleApp ==
    /\ playback_clock = NewClock
    /\ uwall = 0
    /\ playhead = 0
    /\ engine_state = "Paused"
    /\ last_sent = None
    /\ ui_input = [space |-> FALSE, ptr |-> [kind |-> "none", frames |-> 0]]
    /\ tick_cmd = None
    /\ clock_op = "none"
    /\ pause_resume = NoPauseResume
    /\ play_run = NoPlayRun
    /\ seek_run = NoSeekRun
    /\ decode_mgr = <<>>

\* PreviewState::new (state.rs:69-115), in a release build.
NoRingLog ==
    [path |-> "none", op |-> "none", slot |-> 0, at |-> 0, planes |-> "none"]
NewRing ==
    /\ ring_write = 0
    /\ ring_present = 0
    /\ y_size = 0
    /\ y_tex_some = FALSE
    /\ last_fmt = FALSE
    /\ ring_pc = "ok"
    /\ ring_log = NoRingLog
    /\ ring_ops = 0
    /\ ring_run = NoRingRun
    /\ drawn = None

IdleRing == NewRing /\ debug_assertions = FALSE

\* PreviewState::new (state.rs:69-115): no cache worker, empty caches.
IdleCache ==
    /\ ui_pc = "idle"
    /\ ui_req = NoReq
    /\ cache_worker = None
    /\ cache_stop = None
    /\ cw_pc = [t \in CacheThreads |-> "unborn"]
    /\ cw_stop = [t \in CacheThreads |-> FALSE]
    /\ cw_key = [t \in CacheThreads |-> 0]
    /\ frame_cache = <<>>
    /\ nv12_keys = <<>>
    /\ nv12_cache = <<>>
    /\ nv12_obs = NoLookups
    /\ fc_obs = NoFrameUse

\* App::new (app.rs:43-85): nothing selected, no drag.
IdleEdit ==
    /\ selected = None
    /\ drag = None
    /\ next_id = 1
    /\ edits = 0
    /\ edit_log = NoEdit

InitWorker ==
    IdleWorker /\ IdleJobs /\ IdleGraph /\ IdleApp /\ IdleRing /\ IdleCache /\ IdleEdit
      /\ IdleTex

NextWorker ==
    \/ \E ok \in BOOLEAN : WorkerStart(ok) /\ UNCHANGED wlog
    \/ DrainCmd /\ UNCHANGED wlog
    \/ DrainDone /\ UNCHANGED wlog
    \/ \E lag \in -1..MaxLag : WorkerTick(lag, MaxPublished) /\ UNCHANGED wlog
    \/ \E cmd \in DecodeCmd : SendCmd(cmd) /\ UNCHANGED wlog
    \/ TakeLatest /\ UNCHANGED wlog
    \/ WallAdvance /\ UNCHANGED wlog

\* A scrub from 5.0 s to 7.5 s as the worker sees it: the preview sends
\* Seek{5.0}, then Seek{7.5} (preview/ui.rs:113-131; pts in half seconds),
\* and takes the latest frame on every UI frame.
ScrubSeeks ==
    <<[type |-> "Seek", target_pts |-> 10], [type |-> "Seek", target_pts |-> 15]>>

NextScrub ==
    \/ \E ok \in BOOLEAN : WorkerStart(ok) /\ UNCHANGED wlog
    \/ DrainCmd /\ UNCHANGED wlog
    \/ DrainDone /\ UNCHANGED wlog
    \/ \E lag \in -1..MaxLag : WorkerTick(lag, MaxScrubFrames) /\ UNCHANGED wlog
    \/ sent_n < Len(ScrubSeeks) /\ SendCmd(ScrubSeeks[sent_n + 1])
         /\ UNCHANGED wlog
    \/ TakeLatest /\ UNCHANGED wlog

SpecScrub == InitWorker /\ [][NextScrub]_vars

\* The worker with its loop observed, under every interleaving of the UI
\* thread's sends with the drain passes and ticks.  The slot is not taken
\* from and the wall clock stands still.
LoopLags == -1..(MaxLag + 1)
NextLoop ==
    \/ \E ok \in BOOLEAN : WorkerStart(ok) /\ ObserveStart(ok)
    \/ DrainCmd /\ ObserveDrain
    \/ DrainDone /\ UNCHANGED wlog
    \/ \E lag \in LoopLags : WorkerTick(lag, MaxPublished) /\ ObserveTick(lag)
    \/ \E cmd \in DecodeCmd : SendCmd(cmd) /\ UNCHANGED wlog

SpecLoop == InitWorker /\ [][NextLoop]_vars

\* Every graph of at most MaxNodes nodes on the tracks of TrackKinds.
GraphInputs ==
    /\ \E n \in 0..MaxNodes :
          \E attrs \in [1..n -> NodeAttrs] :
             \E kinds \in TrackKinds :
                \E place \in Placements(n, Len(kinds)) :
                   graph = MkGraph(attrs, place, kinds)
    /\ vs_playhead = 0
    /\ vs_result = [called |-> FALSE, source |-> None]

InitGraph ==
    GraphInputs /\ IdleWorker /\ IdleJobs /\ IdleApp /\ IdleRing /\ IdleCache /\ IdleEdit
      /\ IdleTex

InitApp ==
    /\ IdleWorker
    /\ IdleJobs
    /\ IdleApp
    /\ IdleRing
    /\ IdleCache
    /\ IdleEdit
    /\ IdleTex
    /\ graph \in AppGraphs
    /\ vs_playhead = 0
    /\ vs_result = [called |-> FALSE, source |-> None]

NextApp ==
    \/ \E space \in BOOLEAN : \E ptr \in PointerInputs :
          Update(space, ptr) /\ UNCHANGED decode_mgr
    \/ UiWallAdvance(MaxUiWall) /\ UNCHANGED decode_mgr

SpecApp == InitApp /\ [][NextApp]_vars

\* Playback as the workers see it: Space starts and pauses it, wall time
\* passes, and every command a UI frame sends is dispatched.  The timelines:
\* one clip; two clips of one asset back to back, the second starting three
\* frames into the media; one clip played at twice the speed; two clips of
\* two assets back to back.
MaxPlayWall == 6    \* wall-clock steps of a playback

PlayClip(start, duration, media_start, asset, playback_rate) ==
    [shape |-> [kind |-> "Clip", has_asset |-> TRUE, generator_id |-> "-"],
     start |-> start, duration |-> duration, media_start |-> media_start,
     asset |-> asset, playback_rate |-> playback_rate]

PlayGraphs ==
    {MkGraph(<<PlayClip(0, 3, 0, 1, 1)>>, <<1>>, AppTracks),
     MkGraph(<<PlayClip(0, 1, 0, 1, 1), PlayClip(1, 2, 3, 1, 1)>>, <<1, 1>>,
             AppTracks),
     MkGraph(<<PlayClip(0, 3, 0, 1, 2)>>, <<1>>, AppTracks),
     MkGraph(<<PlayClip(0, 1, 0, 1, 1), PlayClip(1, 2, 0, 2, 1)>>, <<1, 1>>,
             AppTracks)}

NoPointer == [kind |-> "none", frames |-> 0]

InitPlay ==
    /\ IdleWorker
    /\ IdleJobs
    /\ IdleApp
    /\ IdleRing
    /\ IdleCache
    /\ IdleEdit
    /\ IdleTex
    /\ graph \in PlayGraphs
    /\ vs_playhead = 0
    /\ vs_result = [called |-> FALSE, source |-> None]

NextPlay ==
    \/ \E space \in BOOLEAN : Update(space, NoPointer) /\ Dispatch
    \/ UiWallAdvance(MaxPlayWall) /\ UNCHANGED decode_mgr

SpecPlay == InitPlay /\ [][NextPlay]_vars

InitRing ==
    /\ IdleWorker
    /\ IdleJobs
    /\ IdleGraph
    /\ IdleApp
    /\ IdleCache
    /\ IdleEdit
    /\ IdleTex
    /\ NewRing
    /\ debug_assertions \in BOOLEAN

NextRing ==
    \/ \E sz \in FrameSizes : \E planes \in PlaneLens :
          UploadYuvPlanes(sz, planes)
    \/ \E sz \in FrameSizes : \E planes \in PlaneLens :
          PresentYuvFromBytes(sz, planes)
    \/ CurrentPlaneTextures

SpecRing == InitRing /\ [][NextRing]_vars

InitCache ==
    IdleWorker /\ IdleJobs /\ IdleGraph /\ IdleApp /\ IdleRing /\ IdleCache /\ IdleEdit
      /\ IdleTex

NextCache ==
    \/ \E key \in CacheKeys : \E is_image, native \in BOOLEAN :
          CacheUpdate(key, is_image, native) /\ UNCHANGED fc_obs
    \/ StopCacheWorker /\ UNCHANGED fc_obs
    \/ JoinReturn /\ UNCHANGED fc_obs
    \/ \E tid \in CacheThreads : CwStart(tid) /\ UNCHANGED fc_obs
    \/ \E tid \in CacheThreads : \E ok \in BOOLEAN :
          CwDecoded(tid, ok) /\ UNCHANGED fc_obs
    \/ \E key \in CacheKeys :
          ring_ops < MaxRingOps /\ PresentYuv(key) /\ UNCHANGED fc_obs
    \/ \E ok \in BOOLEAN : \E sz \in FrameSizes :
          DecodeYuvAtReturn(ok, sz) /\ UNCHANGED fc_obs

SpecCache == InitCache /\ [][NextCache]_vars

\* The NV12 cache on its own: present_yuv for one key after the other.  Keys
\* are opaque, so a key not looked up before is the next number; a hit is
\* tried on the oldest and on the newest cached key.
Nv12NextKey == Cardinality(nv12_obs.seen) + 1
Nv12Lookups ==
    (IF Nv12NextKey <= NV12_CACHE_MAX + MaxExtraKeys
       THEN {Nv12NextKey} ELSE {})
      \cup (IF nv12_obs.odd < MaxOdd /\ nv12_keys # <<>>
              THEN {nv12_keys[1].key, nv12_keys[Len(nv12_keys)].key} ELSE {})

InitNv12 ==
    IdleWorker /\ IdleJobs /\ IdleGraph /\ IdleApp /\ IdleRing /\ IdleCache /\ IdleEdit
      /\ IdleTex

NextNv12 ==
    \/ \E key \in Nv12Lookups : PresentYuv(key) /\ UNCHANGED fc_obs
    \/ \E ok \in {TRUE} \cup {b \in {FALSE} : nv12_obs.odd < MaxOdd} :
          \E sz \in {1} : DecodeYuvAtReturn(ok, sz) /\ UNCHANGED fc_obs

SpecNv12 == InitNv12 /\ [][NextNv12]_vars

\* The NV12 cache under both of its presenters: present_yuv and
\* present_yuv_with_frame, the latter for a new key, the oldest or the
\* newest cached key.
NextYuv ==
    \/ \E key \in Nv12Lookups : PresentYuv(key) /\ UNCHANGED fc_obs
    \/ \E ok \in {TRUE} \cup {b \in {FALSE} : nv12_obs.odd < MaxOdd} :
          \E sz \in {1} : DecodeYuvAtReturn(ok, sz) /\ UNCHANGED fc_obs
    \/ \E key \in Nv12Lookups :
          \E sz \in {1} : PresentYuvWithFrame(key, sz) /\ UNCHANGED fc_obs

SpecYuv == InitNv12 /\ [][NextYuv]_vars

\* The RGBA cache on its own: cache workers and preload threads insert the
\* frames they decoded, one critical section after the other, and the UI
\* thread looks frames up.  Keys are opaque, so a key not decoded before is
\* the next number; a hit is tried on the oldest and on the newest cached
\* key.  One eviction needs FRAME_CACHE_MAX + 2 inserts.
FrameNextKey ==
    IF fc_obs.made < FRAME_CACHE_MAX + 1 + MaxFrameKeys
      THEN {fc_obs.made + 1} ELSE {}
FrameHitKeys ==
    IF frame_cache = <<>> THEN {}
    ELSE {frame_cache[1], frame_cache[Len(frame_cache)]}

InitFrames ==
    IdleWorker /\ IdleJobs /\ IdleGraph /\ IdleApp /\ IdleRing /\ IdleCache /\ IdleEdit
      /\ IdleTex

NextFrames ==
    \/ \E key \in FrameNextKey : FrameWorkerInsert(key)
    \/ \E key \in FrameNextKey : FramePreloadInsert(key)
    \/ \E key \in FrameHitKeys : FrameLookup(key)

SpecFrames == InitFrames /\ [][NextFrames]_vars

InitEdit ==
    /\ IdleWorker
    /\ IdleJobs
    /\ IdleApp
    /\ IdleRing
    /\ IdleCache
    /\ graph \in EditGraphs
    /\ vs_playhead = 0
    /\ vs_result = [called |-> FALSE, source |-> None]
    /\ selected = None
    /\ drag = None
    /\ next_id = Len(graph.nodes) + 1
    /\ edits = 0
    /\ edit_log = NoEdit
    /\ IdleTex

NextEdit ==
    \/ \E ti \in DrawnClips : ClipClicked(ti[1], ti[2])
    \/ \E ti \in DrawnClips : \E drag_mode \in DragModes :
          DragStarted(ti[1], ti[2], drag_mode)
    \/ \E target \in 0..(Len(graph.tracks) - 1) : \E df \in DragDeltas :
          DragPreview(target, df)
    \/ \E a1, a2 \in BOOLEAN : DragReleased(a1, a2)
    \/ \E split_frame \in SplitFrames : \E a1, a2 \in BOOLEAN :
          SplitKey(split_frame, a1, a2)
    \/ \E a1 \in BOOLEAN : DeleteKey(a1)

SpecEdit == InitEdit /\ [][NextEdit]_vars

\* Splits of a clip that plays its media at a rate of its own: the clip has
\* timeline range (0, 4) steps and media start 20 steps; it is selected,
\* split, and its halves are split or removed.
MaxClipRate == 2    \* largest playback_rate of a clip

RatedClip(start, duration, media_start, playback_rate) ==
    [shape |-> [kind |-> "Clip", has_asset |-> TRUE, generator_id |-> "-"],
     start |-> start * EditStep,
     duration |-> duration * EditStep,
     media_start |-> media_start * EditStep,
     asset |-> 1,
     playback_rate |-> playback_rate,
     media_dur |-> duration * EditStep]

SplitGraphs ==
    {MkGraph(<<RatedClip(0, 4, 20, r)>>, <<1>>, AppTracks) : r \in 1..MaxClipRate}

InitSplit ==
    /\ IdleWorker
    /\ IdleJobs
    /\ IdleApp
    /\ IdleRing
    /\ IdleCache
    /\ graph \in SplitGraphs
    /\ vs_playhead = 0
    /\ vs_result = [called |-> FALSE, source |-> None]
    /\ selected = None
    /\ drag = None
    /\ next_id = Len(graph.nodes) + 1
    /\ edits = 0
    /\ edit_log = NoEdit
    /\ IdleTex

NextSplit ==
    \/ \E ti \in DrawnClips : ClipClicked(ti[1], ti[2])
    \/ \E split_frame \in SplitFrames : \E a1, a2 \in BOOLEAN :
          SplitKey(split_frame, a1, a2)
    \/ \E a1 \in BOOLEAN : DeleteKey(a1)

SpecSplit == InitSplit /\ [][NextSplit]_vars

\* The presenter on a device with or without 16-bit normalized textures.
InitTex ==
    /\ IdleWorker
    /\ IdleJobs
    /\ IdleGraph
    /\ IdleApp
    /\ IdleRing
    /\ IdleCache
    /\ IdleEdit
    /\ \E supports16 \in BOOLEAN : tex = NewTex(supports16)
    /\ tex_log = NoTexLog

NextTex ==
    \/ \E fmt \in PixFmts : \E w \in FrameWidths : \E h \in FrameHeights :
          \E pix \in Pixels(fmt) : RenderCpuFrame(DecodedFrame(fmt, w, h, pix))
    \/ \E fmt \in PixFmts : \E w \in FrameWidths : \E h \in FrameHeights :
          \E pix \in Pixels(fmt) : PresentYuvMiss(DecodedFrame(fmt, w, h, pix))

SpecTex == InitTex /\ [][NextTex]_vars

NextGraph == \E p \in Playheads : Resolve(p)

SpecWorker == InitWorker /\ [][NextWorker]_vars

SpecGraph == InitGraph /\ [][NextGraph]_vars

\* The jobs runtime with two workers, under every interleaving of enqueue
\* and cancel_job with the feeder and the workers.
InitJobs ==
    IdleWorker /\ IdleJobs /\ IdleGraph /\ IdleApp /\ IdleRing /\ IdleCache
      /\ IdleEdit /\ IdleTex

FeederNext == FeederSubmit \/ FeederPending \/ FeederCancel
WorkerNext(w) == WorkerPop(w) \/ WorkerCheck(w) \/ WorkerStep(w) \/ WorkerDone(w)

NextJobs ==
    \/ Enqueue
    \/ \E id \in JobIds : CancelJob(id)
    \/ FeederSubmit
    \/ FeederPending
    \/ FeederCancel
    \/ \E w \in JobWorkers : WorkerPop(w)
    \/ \E w \in JobWorkers : WorkerCheck(w)
    \/ \E w \in JobWorkers : WorkerStep(w)
    \/ \E w \in JobWorkers : WorkerDone(w)

SpecJobs == InitJobs /\ [][NextJobs]_vars

\* The same with threads that keep running: the feeder and each worker take
\* a step whenever one stays possible.
SpecJobsLive ==
    /\ InitJobs
    /\ [][NextJobs]_vars
    /\ WF_vars(FeederNext)
    /\ \A w \in JobWorkers : WF_vars(WorkerNext(w))

Init == InitWorker
Next == NextWorker
Spec == Init /\ [][Next]_vars

\* ------------------------------------------------------------------------
\* Claims about the decode worker (checked under SpecWorker)

RECURSIVE FoldCmds(_, _)
FoldCmds(s, cmds) ==
    IF cmds = <<>> THEN s
    ELSE FoldCmds(ApplyCmd(s, Head(cmds), 0), Tail(cmds))

CmdView(s) == <<s.mode, s.anchor_pts, s.rate, s.running>>

LastTakenId == IF taken = <<>> THEN 0 ELSE taken[Len(taken)].id

\* C1: the latest-frame slot holds the most recently published frame that no
\* take has returned yet, or nothing; every frame a take returned is a
\* published frame, returned once, and takes return frames in publication
\* order.
C1_SlotLatestWins ==
    /\ slot = IF Len(published) > LastTakenId
                THEN Some([id |-> Len(published),
                           pts |-> published[Len(published)]])
                ELSE None
    /\ \A i \in 1..Len(taken) :
          /\ taken[i].id \in 1..Len(published)
          /\ taken[i].pts = published[taken[i].id]
    /\ \A i, j \in 1..Len(taken) : i < j => taken[i].id < taken[j].id

\* Two frames were published, the second with an earlier pts and before any
\* take; the single take returned the second one.
C1_Witness ==
    /\ Len(published) = 2
    /\ published[2] < published[1]
    /\ Len(taken) = 1
    /\ taken[1].id = 2
    /\ ~slot.some

\* C3: the worker's (mode, anchor_pts, rate, running), with the commands
\* still in the channel applied to it oldest first, is the result of applying
\* every command sent so far in send order; when a drain ends (empty
\* channel) the worker's state itself is that result.
C3_CommandsAppliedInOrder ==
    CmdView(FoldCmds(WorkerState(mode, anchor_pts, rate, anchor_t, running),
                     cmd_rx))
      = CmdView(sent_fold)

\* A drain has just ended after two commands whose order matters: the
\* second, a Play, re-anchored the worker, so the first was not a Play.
C3_Witness ==
    /\ wpc = "tick"
    /\ cmd_rx = <<>>
    /\ sent_n = 2
    /\ sent_last = Some([type |-> "Play", rate |-> 2, start_pts |-> 1])
    /\ sent_fold.mode = "Playing"
    /\ sent_fold.anchor_pts = 1
    /\ mode = "Playing"
    /\ anchor_pts = 1
    /\ rate = 2
    /\ running

\* ------------------------------------------------------------------------
\* Claims about the timeline resolver (checked under SpecGraph)

NonAudioTracks(g) == {t \in 1..Len(g.tracks) : g.tracks[t].kind # "Audio"}

\* Positions in track t of the Clip/Generator nodes whose timeline range
\* holds p: start <= p < start + duration.
CoveringPositions(g, t, p) ==
    {i \in 1..Len(g.tracks[t].node_ids) :
        LET n == g.nodes[g.tracks[t].node_ids[i]]
        IN /\ n.shape.kind \in {"Clip", "Generator"}
           /\ n.start <= p
           /\ p < n.start + n.duration}

NodeSource(g, t, i) ==
    LET id == g.tracks[t].node_ids[i]
    IN IF g.nodes[id].shape.kind = "Clip"
         THEN clip_source(g.tracks[t], id, g.nodes[id])
         ELSE generator_source(id, g.nodes[id])

SetMax(S) == CHOOSE x \in S : \A y \in S : y <= x
SetMin(S) == CHOOSE x \in S : \A y \in S : x <= y

\* C4: visual_source_at returns None or the source of a Clip/Generator on a
\* non-audio track whose range satisfies start <= p < start + duration (the
\* range end is not covered); a graph whose tracks are all empty gives None.
C4_ResultCoversPlayhead ==
    vs_result.called =>
      /\ vs_result.source.some =>
           \E t \in NonAudioTracks(graph) :
              \E i \in CoveringPositions(graph, t, vs_playhead) :
                 NodeSource(graph, t, i) = vs_result.source
      /\ (\A t \in 1..Len(graph.tracks) : graph.tracks[t].node_ids = <<>>)
           => vs_result.source = None

\* The top track holds a clip with an asset that ends exactly at the
\* playhead; the result comes from the track below.
C4_Witness ==
    /\ vs_result.called
    /\ vs_result.source.some
    /\ Len(graph.tracks) = 2
    /\ graph.tracks[2].kind = "Video"
    /\ Len(graph.tracks[2].node_ids) = 1
    /\ LET n == graph.nodes[graph.tracks[2].node_ids[1]]
       IN /\ n.shape.kind = "Clip"
          /\ n.shape.has_asset
          /\ n.start + n.duration = vs_playhead
    /\ CoveringPositions(graph, 1, vs_playhead) # {}

TracksWithCover(g, p) ==
    {t \in NonAudioTracks(g) : CoveringPositions(g, t, p) # {}}

\* C5: the result is the source of the first covering Clip/Generator of the
\* highest-index non-audio track that has one, and it is None only when no
\* non-audio track has a covering Clip/Generator.
C5_TopmostFirstCovering ==
    vs_result.called =>
      IF TracksWithCover(graph, vs_playhead) # {}
        THEN LET t == SetMax(TracksWithCover(graph, vs_playhead))
                 i == SetMin(CoveringPositions(graph, t, vs_playhead))
             IN /\ vs_result.source.some
                /\ vs_result.source = NodeSource(graph, t, i)
        ELSE vs_result.source = None

\* ------------------------------------------------------------------------
\* Claims about the UI frame (checked under SpecApp)

Now == clock_now(playback_clock, uwall)

C7_ResumeKeepsMediaTime ==
    pause_resume.resumed_at.some =>
       pause_resume.resumed_at = pause_resume.paused_at

\* C8: over consecutive preview ticks that see the same engine state (not
\* Playing), the same active path and the same seek bucket, at most one Seek
\* command is sent.
C8_OneSeekPerBucket == seek_run.seeks <= 1

\* The second tick of a run in Seeking: the Seek went out on the first.
C8_Witness ==
    /\ seek_run.key.some
    /\ seek_run.key.val.state = "Seeking"
    /\ seek_run.ticks = 2
    /\ seek_run.seeks = 1
    /\ tick_cmd = None

\* C9: while engine.state stays Playing on one active path, exactly one Play
\* command has been sent for that path since engine.state became Playing.
C9_OnePlayPerTransition == play_run.path.some => play_run.plays = 1

\* ------------------------------------------------------------------------
\* Claims about the plane ring (checked under SpecRing)

\* C10: an upload, by either path, never writes the slot whose index is
\* ring_present at the time of the write.
C10_UploadAvoidsPresentSlot ==
    ring_log.op = "upload" => ring_log.slot # ring_log.at

\* ------------------------------------------------------------------------
\* Claims about the UI-thread caches (checked under SpecCache)

\* C2: the UI thread is never inside a decoder call and never inside a join
\* on a cache worker thread that is inside its decode call.
C2_UiNeverWaitsForDecode ==
    /\ ui_pc # "decode_yuv_at"
    /\ ui_pc = "join" => cw_pc[ui_req.tid] # "decode"

\* C11: while no draw call advances the presenter, the ring takes at most
\* RING_SLOTS frames; every further frame is dropped by the full test
\* (write + 1) mod 3 == present.
C11_FrozenRingTakesAtMostThree == ring_run.uploads <= RING_SLOTS

\* C12: a frame whose Y or UV plane has not the length expected for
\* (fmt, w, h) is neither uploaded nor the cause of a panic, on every upload
\* path and in debug and release builds.
C12_MismatchedPlanesAreSkipped ==
    ring_log.planes \in {"short", "long"} =>
        ring_log.op \notin {"upload", "panic"}

\* C13 as stated: between lookups the NV12 cache holds at most 64 entries;
\* once more than 64 distinct keys have been looked up it holds exactly 64,
\* and the key looked up last is the newest entry, the last one eviction
\* would reach.
C13_LookedUpKeysFillTheCache ==
    ui_pc = "idle" =>
      /\ Len(nv12_keys) <= NV12_CACHE_MAX
      /\ Cardinality(nv12_obs.seen) > NV12_CACHE_MAX
           => Len(nv12_keys) = NV12_CACHE_MAX
      /\ nv12_obs.last # 0 =>
           /\ nv12_keys # <<>>
           /\ nv12_keys[Len(nv12_keys)].key = nv12_obs.last

\* C13, for the lookups that returned a frame: the cache holds at most 64
\* entries at any time; once more than 64 distinct keys were looked up with
\* a frame returned (a hit or a decoded miss) it holds exactly 64, and the
\* last such key is the newest entry, the last one eviction would reach.
C13_ReturnedKeysFillTheCache ==
    /\ Len(nv12_keys) <= NV12_CACHE_MAX
    /\ Cardinality(nv12_obs.got) > NV12_CACHE_MAX
         => Len(nv12_keys) = NV12_CACHE_MAX
    /\ nv12_obs.last_got # 0 =>
         /\ nv12_keys # <<>>
         /\ nv12_keys[Len(nv12_keys)].key = nv12_obs.last_got

\* More than 64 keys were decoded and cached; key 1 was looked up again
\* while it was the oldest entry, so key 2 was evicted in its place.
C13_Witness ==
    /\ ui_pc = "idle"
    /\ Cardinality(nv12_obs.got) > NV12_CACHE_MAX
    /\ Len(nv12_keys) = NV12_CACHE_MAX
    /\ \E i \in 1..Len(nv12_keys) : nv12_keys[i].key = 1
    /\ \A i \in 1..Len(nv12_keys) : nv12_keys[i].key # 2

\* ------------------------------------------------------------------------
\* Claims about the plane formats (checked under SpecTex)

\* C18: after a frame was uploaded, the ring textures have the formats of the
\* frame's format on this device (R16Uint/Rg16Uint for P010 without 16-bit
\* normalized textures), the stored padded row sizes are those of the
\* frame's format, and the uint pipeline is chosen exactly when the
\* textures are the uint ones.
C18_TexturesMatchFrame ==
    tex_log.op = "upload" =>
       LET f == tex_log.frame
       IN /\ tex.y_format = TextureFormats(f.fmt, tex.supports16).y
          /\ tex.uv_format = TextureFormats(f.fmt, tex.supports16).uv
          /\ tex.y_pad_bpr = align_to(f.w * BytesPerTexel(f.fmt).y, 256)
          /\ tex.uv_pad_bpr =
                align_to(((f.w + 1) \div 2) * BytesPerTexel(f.fmt).uv, 256)
          /\ tex_log.path = "render_cpu_frame" =>
                (tex_log.use_uint <=> tex.y_format = "R16Uint")

\* C19: a solid 10-bit gray (512, 512, 512) drawn by the uint pipeline comes
\* out within 0.01 of (0.5, 0.5, 0.5), and as what the float pipeline makes
\* of the same P010 texel.
C19_UintGrayIsMidGray ==
    (tex_log.use_uint /\ tex_log.rgb.some
       /\ tex_log.frame.pix = <<512, 512, 512>>) =>
       /\ \A c \in {tex_log.rgb.val.r, tex_log.rgb.val.g, tex_log.rgb.val.b} :
             c >= 490 /\ c <= 510
       /\ tex_log.rgb.val = FloatShader("P010", Texel("P010", tex_log.frame.pix))

\* C20: a frame handed to the ring upload has |Y| = w*h and
\* |UV| = 2*ceil(w/2)*ceil(h/2) when it is NV12 and twice that when it is
\* P010.
C20_PlaneSizes ==
    tex_log.path # "none" =>
       LET f == tex_log.frame
           k == IF f.fmt = "Nv12" THEN 1 ELSE 2
       IN /\ f.y_len = k * f.w * f.h
          /\ f.uv_len = k * 2 * ((f.w + 1) \div 2) * ((f.h + 1) \div 2)

\* C17: during the scrub Seek{5.0}, Seek{7.5} the worker publishes at most 5
\* frames in total.
C17_ScrubPublishesAtMostFive == Len(published) <= 5

\* ------------------------------------------------------------------------
\* Claims about timeline editing (checked under SpecEdit)

\* C14: a step that splits the selected node, with timeline range (s, d), at
\* frame f, s < f < s + d, leaves it as the left half with timeline
\* (s, f - s) and adds under the new id the right half with timeline
\* (f, s + d - f), right after it on the same track; when the node is a clip
\* with media range (m, d) the halves have the media ranges (m, f - s) and
\* (m + f - s, s + d - f).
C14_SplitKeepsEveryFrame ==
    [][(edit_log'.op = "split" /\ edit_log'.done) =>
          LET track == selected.val[1]
              item == selected.val[2]
              id == graph.tracks[track + 1].node_ids[item + 1]
              old == graph.nodes[id]
              left == graph'.nodes[id]
              right == graph'.nodes[next_id]
              f == right.start
          IN /\ old.start < f
             /\ f < old.start + old.duration
             /\ DOMAIN graph'.nodes = DOMAIN graph.nodes \cup {next_id}
             /\ graph'.tracks[track + 1].node_ids[item + 2] = next_id
             /\ left.start = old.start
             /\ left.duration = f - old.start
             /\ right.duration = old.start + old.duration - f
             /\ left.start + left.duration = right.start
             /\ right.shape = old.shape
             /\ left.shape = old.shape
             /\ (old.shape.kind = "Clip" /\ old.media_dur = old.duration) =>
                   /\ left.media_start = old.media_start
                   /\ left.media_dur = f - old.start
                   /\ right.media_start = old.media_start + f - old.start
                   /\ right.media_dur = old.start + old.duration - f]_vars

\* The clip of the first graph was split one step after its start: the
\* selected right half begins one step further into the media.
C14_Witness ==
    /\ edit_log.op = "split"
    /\ edit_log.done
    /\ selected = Some(<<0, 1>>)
    /\ graph.tracks[1].node_ids = <<1, 2>>
    /\ graph.nodes[2].shape.kind = "Clip"
    /\ graph.nodes[1].duration = EditStep
    /\ graph.nodes[2].start = graph.nodes[1].start + EditStep
    /\ graph.nodes[2].media_start = graph.nodes[1].media_start + EditStep

\* The (track, position) pairs that hold node id.
PlacesOf(g, id) ==
    {tp \in UNION {{<<t, p>> : p \in DOMAIN g.tracks[t].node_ids} :
                      t \in DOMAIN g.tracks} :
        g.tracks[tp[1]].node_ids[tp[2]] = id}

\* C15: every node of the graph is in exactly one track's node_ids, once.
C15_NodeInExactlyOneTrack ==
    \A id \in DOMAIN graph.nodes : Cardinality(PlacesOf(graph, id)) = 1

\* A clip was split and its right half dragged to the track above and
\* released there: each half is on its own track.
C15_Witness ==
    /\ edit_log.op = "finish_drag"
    /\ edit_log.done
    /\ ~drag.some
    /\ graph.tracks[1].node_ids = <<1>>
    /\ graph.tracks[2].node_ids = <<2>>
    /\ graph.nodes[2].shape.kind = "Clip"
    /\ selected = Some(<<1, 0>>)

DrainsPlay ==
    /\ wpc = "drain"
    /\ cmd_rx # <<>>
    /\ cmd_rx' = Tail(cmd_rx)
    /\ Head(cmd_rx).type = "Play"

\* C21: a Play{start_pts, rate} drained while the worker is not Playing sets
\* mode = Playing, anchor_pts = start_pts and anchor_t = now; a Play drained
\* while the worker is Playing leaves anchor_pts and anchor_t as they were;
\* both set rate.
C21_PlayAnchorsOnlyOnEntry ==
    [][DrainsPlay =>
          /\ mode' = "Playing"
          /\ rate' = Head(cmd_rx).rate
          /\ IF mode # "Playing"
               THEN anchor_pts' = Head(cmd_rx).start_pts /\ anchor_t' = wnow
               ELSE anchor_pts' = anchor_pts /\ anchor_t' = anchor_t]_vars

\* Two Plays were drained, the second one wall step after the first and
\* with another start_pts and rate: the anchors are the first one's, the
\* rate is the second one's.
C21_Witness ==
    /\ sent_n = 2
    /\ cmd_rx = <<>>
    /\ sent_last = Some([type |-> "Play", rate |-> 2, start_pts |-> 1])
    /\ mode = "Playing"
    /\ anchor_pts = 0
    /\ anchor_t = 0
    /\ wnow = 1
    /\ rate = 2

\* The pass drained several Seek commands, the last command being one.
SeveralSeeks(pass) ==
    /\ pass # <<>>
    /\ pass[Len(pass)].type = "Seek"
    /\ \E i \in 1..(Len(pass) - 1) : pass[i].type = "Seek"

LastTarget(pass) == pass[Len(pass)].target_pts

\* C22: when a drain pass received several Seek commands, the last command
\* being a Seek, the pass ends with mode = Seeking and anchor_pts = the last
\* Seek's target, and the tick after it decodes for that target only: a
\* frame it publishes has that pts.
C22_OnlyLastSeekDecoded ==
    /\ (wpc = "tick" /\ SeveralSeeks(wlog.drained)) =>
          /\ mode = "Seeking"
          /\ anchor_pts = LastTarget(wlog.drained)
    /\ (wlog.tick # "none" /\ SeveralSeeks(wlog.pass)) =>
          /\ wlog.tick = "Seeking"
          /\ wlog.target = LastTarget(wlog.pass)
          /\ wlog.wrote => published[Len(published)] = LastTarget(wlog.pass)

\* Seek{0} and Seek{1} were drained in one pass and the tick after it
\* published the only frame so far, with pts 1.
C22_Witness ==
    /\ wlog.pass = <<[type |-> "Seek", target_pts |-> 0],
                     [type |-> "Seek", target_pts |-> 1]>>
    /\ wlog.tick = "Seeking"
    /\ wlog.wrote
    /\ published = <<1>>

\* C23: the tick that follows a drain pass in which a Stop was received
\* makes no decode_frame call and does not write the slot.
C23_StopEndsWithoutDecoding ==
    wlog.stopped => wlog.calls = 0 /\ ~wlog.wrote

\* C24: one tick makes at most 1 + PREFETCH_BUDGET_PER_TICK decode_frame
\* calls.
C24_AtMostSevenCalls ==
    wlog.calls <= 1 + PREFETCH_BUDGET_PER_TICK

\* C25: a tick in mode Paused makes no decode_frame call and does not write
\* the slot; until a Play or a Seek is drained no tick is in another mode,
\* nothing is published and the slot is empty.
C25_PausedNeverDecodes ==
    /\ wlog.tick = "Paused" => wlog.calls = 0 /\ ~wlog.wrote
    /\ ~wlog.left_paused =>
          /\ wlog.tick \in {"none", "Paused"}
          /\ published = <<>>
          /\ slot = None

\* The worker published a frame, a Pause was drained after it, and the tick
\* in Paused left the frame in the slot.
C25_Witness ==
    /\ wlog.tick = "Paused"
    /\ wlog.left_paused
    /\ wlog.pass # <<>>
    /\ wlog.pass[Len(wlog.pass)].type = "Pause"
    /\ Len(published) = 1
    /\ slot.some

\* C26: when MaxMisses ticks in a row got no frame from the decoder, the
\* worker has created a decoder a second time.
C26_DecoderRecreatedAfterMisses ==
    wlog.misses >= MaxMisses => wlog.decoders >= 2

\* ------------------------------------------------------------------------
\* Claims about the UI frame (checked under SpecApp), continued

\* C27: at the end of every update in which the pointer neither clicked nor
\* dragged on the timeline background, engine.state is Playing if
\* playback_clock.playing and Paused otherwise.
C27_EngineAlignedAfterGesture ==
    ui_input.ptr.kind \in {"none", "button"} =>
       engine_state = IF playback_clock.playing THEN "Playing" ELSE "Paused"

\* ------------------------------------------------------------------------
\* Claims about the RGBA cache (checked under SpecFrames)

\* C28: frame_cache never holds more than FRAME_CACHE_MAX entries.
C28_FrameCacheAtMostFifty == Len(frame_cache) <= FRAME_CACHE_MAX

Pos(seq, k) == CHOOSE i \in 1..Len(seq) : seq[i] = k

\* C29: an eviction removes no entry whose last use, insert or lookup hit,
\* is more recent than the last use of an entry it keeps.
C29_EvictsLeastRecentlyUsed ==
    \A e \in fc_obs.evicted :
       \A k \in Keys(fc_obs.use_at_evict) \ fc_obs.evicted :
          Pos(fc_obs.use_at_evict, e) < Pos(fc_obs.use_at_evict, k)

\* ------------------------------------------------------------------------
\* Claims about playback (checked under SpecPlay)

Abs(x) == IF x < 0 THEN -x ELSE x

\* C30: at the end of a UI frame with the engine Playing and a clip under
\* the playhead, the worker of the active path is Playing and the media time
\* it decodes for, anchor_pts + elapsed * rate, is within one frame of the
\* media time active_video_media_time_graph yields for the clock's time.
C30_WorkerFollowsClock ==
    LET t == clock_now(playback_clock, uwall)
        source == visual_source_at(graph, frames_floor(t))
        am == active_video_media_time_graph(graph, t)
    IN (/\ ui_input.ptr.kind = "none"
        /\ engine_state = "Playing"
        /\ source.some
        /\ am.some) =>
          /\ am.val.path \in DOMAIN decode_mgr
          /\ LET w == decode_mgr[am.val.path]
                 target == match_mode(w.mode, w.anchor_pts, uwall - w.anchor_t,
                                      w.rate, 0).target
             IN /\ w.mode = "Playing"
                /\ Abs(target - am.val.media_sec) <= frames_to_seconds(1)

\* C31: at most one worker of the decode manager is in a mode other than
\* Paused.
C31_OneWorkerDecodes ==
    Cardinality({p \in DOMAIN decode_mgr : decode_mgr[p].mode # "Paused"}) <= 1

\* C32: at the end of a UI frame whose playhead frame shows a clip, the path
\* active_video_media_time_graph resolves for the clock's time, if any, is
\* the path of that clip.
C32_CommandedPathIsShownPath ==
    LET source == visual_source_at(graph, playhead)
        am == active_video_media_time_graph(graph,
                                            clock_now(playback_clock, uwall))
    IN (/\ ui_input.ptr.kind = "none"
        /\ source.some
        /\ source.val.path[1] = "asset"
        /\ am.some) =>
          am.val.path = source.val.path

\* C33: within one worker tick no decode_frame call that returned a frame had
\* its result discarded.
C33_NoFrameDiscarded ==
    wlog.dropped = 0

\* The entry of the key a frame was last returned for is in nv12_cache.
Nv12KeySet == {nv12_keys[i].key : i \in 1..Len(nv12_keys)}
InsertedEntryStays ==
    nv12_obs.last_got # 0 => nv12_obs.last_got \in DOMAIN nv12_cache

\* C34: nv12_keys and nv12_cache hold the same set of keys, nv12_keys holds
\* each key once, and the entry just inserted is never the one evicted.
C34_KeysMatchCache ==
    /\ Nv12KeySet = DOMAIN nv12_cache
    /\ Cardinality(Nv12KeySet) = Len(nv12_keys)
    /\ InsertedEntryStays

\* C35: a call of present_yuv_from_bytes that rejects its frame for a plane
\* of the wrong length leaves ring_write, ring_present, y_size, last_fmt and
\* the slot textures as they were.
C35_RejectLeavesRing ==
    [][(ring_ops' # ring_ops /\ ring_log'.op = "reject") =>
         UNCHANGED <<ring_write, ring_present, y_size, y_tex_some, last_fmt>>]_vars

\* The times of the frames of a timeline with the graph g.
FrameTimes(g) == {frames_to_seconds(p) : p \in 0..SeqDuration(g)}

\* C36: a completed split leaves the media mapping as it was: at every
\* timeline frame at which active_video_media_time_graph resolved a clip
\* before the split, the half that covers the frame gives the same source
\* and the same media time after it, whatever the clip's playback_rate.
C36_SplitKeepsMediaTime ==
    [][(edit_log'.op = "split" /\ edit_log'.done) =>
          \A t \in FrameTimes(graph) :
             LET before == active_video_media_time_graph(graph, t)
                 after == active_video_media_time_graph(graph', t)
             IN before.some => after = before]_vars

\* C37: while a TrimStart drag is under way the dragged node ends where it
\* ended when the drag began, and the media range of a clip starts as many
\* frames later as its timeline range does.
C37_TrimStartKeepsEnd ==
    (drag.some /\ drag.val.mode = "TrimStart"
       /\ drag.val.node_id \in DOMAIN graph.nodes) =>
      LET node == graph.nodes[drag.val.node_id]
      IN /\ node.start + node.duration = drag.val.orig_from + drag.val.orig_dur
         /\ node.shape.kind = "Clip" =>
               node.media_start - drag.val.original_node.media_start
                 = node.start - drag.val.orig_from

\* C38: at the end of every UI frame the playhead is a frame of the
\* sequence: 0 <= playhead <= seq.duration_in_frames.
C38_PlayheadInSequence ==
    /\ 0 <= playhead
    /\ playhead <= SeqDuration(graph)

\* ------------------------------------------------------------------------
\* Claims about the background jobs (C39 under SpecJobsLive, C40 under
\* SpecJobs)

\* The positions of the terminal events of job j.
TerminalAt(j) == {k \in 1..Len(rx_events[j]) : rx_events[j][k].status \in Terminal}

\* C39: every job enqueue accepted produces a terminal event (Done or
\* Canceled) in the end, however cancel_job is interleaved with the feeder
\* and the workers.
C39_EveryJobEnds ==
    \A j \in JobIds : (j < job_next) ~> (TerminalAt(j) # {})

\* The rest of C39: a job has at most one terminal event and no event
\* after it.
C39_NothingAfterTerminal ==
    \A j \in JobIds : TerminalAt(j) \subseteq {Len(rx_events[j])}

\* C40: the Pending event of a job is sent before its Running event: the
\* first event of every job is Pending.
C40_PendingBeforeRunning ==
    \A j \in JobIds :
       rx_events[j] # <<>> => rx_events[j][1].status = "Pending"

====
